---- MODULE Spec2Model ----
(***************************************************************************)
(* hookmap: a global keyboard-and-mouse hotkey engine.                     *)
(*                                                                         *)
(* The model covers the registration API (Hotkey / ModifierHotkey), the    *)
(* rule store it fills, the resolver that matches one event against the    *)
(* store, and the OS hook bridge (hook_proc / EventHandler::emit /         *)
(* send_key_input).  The rule store, the hook conditions, the modifier     *)
(* tracker and the resolver live in modules of the crate that are not part *)
(* of the sources at hand (hotkey/storage.rs, hotkey/hook.rs,              *)
(* hotkey/modifier_keys.rs, runtime.rs); they are modelled from the        *)
(* written specification and say so where they are defined.                *)
(***************************************************************************)
EXTENDS Integers, Sequences, FiniteSets, Bags, TLC

VARIABLES
    phase,          \* "registration" | "running" | "panicked" | "unhooked" (the event loop
                    \* runs and no hook is installed)
    registrars,     \* the registrar objects created so far; registrars[1] is the root Hotkey
    storage,        \* HotkeyStorage: the rule store
    ncalls,         \* number of hook-registering calls made (names the callback of each call)
    generator,      \* EventHandler.generator is Some(..): a handler is registered with the core
    tracker,        \* modifier tracker: Button -> pressed
    is_active,      \* the activation latches (Arc<AtomicBool>), by the call that created them
    pending,        \* spawned callbacks that have not run yet: the setters per latch and,
                    \* where the entry 0 is kept, the batches of the other callbacks
    sent,           \* injector emissions whose SendInput thread has not delivered them yet
    last,           \* what the bridge did with the last event it was called with
    last_press,     \* history: the last real event of a button was a Press
    s3,             \* history: progress of the literal scenario S3 and the firings in it
    calls,          \* the calls of hook_proc in progress, where they are followed step by step
    mutex,          \* the lock around the keyboard handler: 0 free, n held by call n, -1 poisoned
    log,            \* history: the steps of the calls of hook_proc, in the order they happened,
                    \* and the inputs that user code handed to the injector
    threads,        \* user code in progress, where it is followed: the callbacks of the
                    \* utilities and a run of send!, each with its position
    IS_ALT_TAB_WORKING  \* the static AtomicBool of the utilities

vars == <<phase, registrars, storage, ncalls, generator, tracker, is_active,
          pending, sent, last, last_press, s3, calls, mutex, log, threads, IS_ALT_TAB_WORKING>>

(***************************************************************************)
(* Bounds of the model.                                                    *)
(***************************************************************************)
MaxCalls == 2
MaxRegistrars == 2
MaxArgs == 1
MaxPending == 1
MaxInFlight == 1
MaxLatches == 1

(***************************************************************************)
(* Data model.                                                             *)
(***************************************************************************)
Button == {"LCtrl", "Space"}

ButtonAction == {"Press", "Release"}

NativeEventOperation == {"Block", "Dispatch"}

\* NativeEventOperation::default(): Dispatch unless the crate is built with
\* the feature "block-input-event".
DefaultNativeEventOperation == "Dispatch"

\* The origin tag the injector writes into dwExtraInfo.
DW_EXTRA_INFO == 1

ExtraInfo == {0, DW_EXTRA_INFO}

ButtonArgElementTag == {"Direct", "Inversion"}

direct(button) == [tag |-> "Direct", button |-> button]

inversion(button) == [tag |-> "Inversion", button |-> button]

invert(e) == IF e.tag = "Direct" THEN inversion(e.button) ELSE direct(e.button)

ButtonArgElement == [tag : ButtonArgElementTag, button : Button]

\* ButtonArg: the lists of at most MaxArgs elements (arg! keeps the written order).
ButtonArg == UNION {[1..n -> ButtonArgElement] : n \in 1..MaxArgs}

EmptyModifierKeys == [pressed |-> {}, released |-> {}]

\* ModifierKeys::from(ButtonArg): a plain button must be pressed, a button
\* written with "!" must be released.
ModifierKeysFrom(args) ==
    [pressed  |-> {args[i].button : i \in {j \in DOMAIN args : args[j].tag = "Direct"}},
     released |-> {args[i].button : i \in {j \in DOMAIN args : args[j].tag = "Inversion"}}]

\* ModifierKeys::merge: both conditions are required.
ModifierKeysMerge(a, b) ==
    [pressed |-> a.pressed \cup b.pressed, released |-> a.released \cup b.released]

\* HotkeyCondition.  is_active names the latch of an Activation condition (the
\* call that created it) and is 0 in the other two.
ConditionAny == [type |-> "Any", modifier_keys |-> EmptyModifierKeys, is_active |-> 0]

ConditionModifier(mk) == [type |-> "Modifier", modifier_keys |-> mk, is_active |-> 0]

ConditionActivation(l) == [type |-> "Activation", modifier_keys |-> EmptyModifierKeys, is_active |-> l]

\* A hook's process: the user's callback of call `id`, the closure that sets
\* latch `id`, or the empty closure of disable.
UserProcess(id) == [kind |-> "user", id |-> id]

ActivateProcess(l) == [kind |-> "activate", id |-> l]

EmptyProcess(id) == [kind |-> "empty", id |-> id]

HotkeyHook(condition, process, op) ==
    [condition |-> condition, process |-> process, native_event_operation |-> op]

RemapHook(mk, behavior) == [modifier_keys |-> mk, button |-> behavior]

MouseHook(mk, process, op) ==
    [modifier_keys |-> mk, process |-> process, native_event_operation |-> op]

EmptyStorage ==
    [remap            |-> [b \in Button |-> <<>>],
     on_press         |-> [b \in Button |-> <<>>],
     on_release       |-> [b \in Button |-> <<>>],
     mouse_wheel      |-> <<>>,
     mouse_cursor     |-> <<>>]

register_remap(st, button, hook) == [st EXCEPT !.remap[button] = Append(@, hook)]

register_hotkey_on_press(st, button, hook) == [st EXCEPT !.on_press[button] = Append(@, hook)]

register_hotkey_on_release(st, button, hook) == [st EXCEPT !.on_release[button] = Append(@, hook)]

register_mouse_wheel_hotkey(st, hook) == [st EXCEPT !.mouse_wheel = Append(@, hook)]

register_mouse_cursor_hotkey(st, hook) == [st EXCEPT !.mouse_cursor = Append(@, hook)]

(***************************************************************************)
(* The registrars.                                                         *)
(***************************************************************************)
\* Hotkey::new(): empty modifier keys; hooks get NativeEventOperation::default().
RootHotkey ==
    [kind |-> "Hotkey", modifier_keys |-> EmptyModifierKeys,
     native_event_operation |-> DefaultNativeEventOperation]

ModifierHotkeyNew(mk, op) ==
    [kind |-> "ModifierHotkey", modifier_keys |-> mk, native_event_operation |-> op]

\* A faulty remap that registers the hook the wrong way round (on the behavior
\* button, sending the target).
RECURSIVE remap_swapped(_, _, _, _)
remap_swapped(st, self, target, behavior) ==
    IF target = <<>> THEN [storage |-> st, panicked |-> FALSE]
    ELSE IF Head(target).tag = "Inversion" THEN [storage |-> st, panicked |-> TRUE]
    ELSE remap_swapped(register_remap(st, behavior,
                                      RemapHook(self.modifier_keys, Head(target).button)),
                       self, Tail(target), behavior)

\* A faulty remap that skips an Inversion argument instead of panicking.
RECURSIVE remap_skipping(_, _, _, _)
remap_skipping(st, self, target, behavior) ==
    IF target = <<>> THEN [storage |-> st, panicked |-> FALSE]
    ELSE IF Head(target).tag = "Inversion" THEN remap_skipping(st, self, Tail(target), behavior)
    ELSE remap_skipping(register_remap(st, Head(target).button,
                                       RemapHook(self.modifier_keys, behavior)),
                        self, Tail(target), behavior)

\* Hotkey::remap and ModifierHotkey::remap: walk the arguments in order, panic
\* at the first Inversion, register a RemapHook for each Direct before it.
RECURSIVE remap(_, _, _, _)
remap(st, self, target, behavior) ==
    IF target = <<>> THEN [storage |-> st, panicked |-> FALSE]
    ELSE IF Head(target).tag = "Inversion" THEN [storage |-> st, panicked |-> TRUE]
    ELSE remap(register_remap(st, Head(target).button,
                              RemapHook(self.modifier_keys, behavior)),
               self, Tail(target), behavior)

\* A faulty root registrar whose hooks require every button to be released.
HotkeyNewHookLonely(process) ==
    HotkeyHook(ConditionModifier([pressed |-> {}, released |-> Button]), process,
               DefaultNativeEventOperation)

\* The hook that Hotkey::on_press / on_release build for every argument.
HotkeyNewHook(process) ==
    HotkeyHook(ConditionAny, process, DefaultNativeEventOperation)

\* A faulty ModifierHotkey::on_press that forgets the registrar's modifier keys.
ModifierHotkeyNewHookAny(self, process) ==
    HotkeyHook(ConditionAny, process, self.native_event_operation)

\* The hook that ModifierHotkey::on_press builds for every argument.
ModifierHotkeyNewHook(self, process) ==
    HotkeyHook(ConditionModifier(self.modifier_keys), process, self.native_event_operation)

RECURSIVE Hotkey_on_press(_, _, _)
Hotkey_on_press(st, target, process) ==
    IF target = <<>> THEN st
    ELSE LET arg == Head(target)
             hook == HotkeyNewHook(process)
         IN Hotkey_on_press(
                IF arg.tag = "Direct"
                THEN register_hotkey_on_press(st, arg.button, hook)
                ELSE register_hotkey_on_release(st, arg.button, hook),
                Tail(target), process)

RECURSIVE Hotkey_on_release(_, _, _)
Hotkey_on_release(st, target, process) ==
    IF target = <<>> THEN st
    ELSE LET arg == Head(target)
             hook == HotkeyNewHook(process)
         IN Hotkey_on_release(
                IF arg.tag = "Direct"
                THEN register_hotkey_on_release(st, arg.button, hook)
                ELSE register_hotkey_on_press(st, arg.button, hook),
                Tail(target), process)

RECURSIVE ModifierHotkey_on_press(_, _, _, _)
ModifierHotkey_on_press(st, self, target, process) ==
    IF target = <<>> THEN st
    ELSE LET arg == Head(target)
             hook == ModifierHotkeyNewHook(self, process)
         IN ModifierHotkey_on_press(
                IF arg.tag = "Direct"
                THEN register_hotkey_on_press(st, arg.button, hook)
                ELSE register_hotkey_on_release(st, arg.button, hook),
                self, Tail(target), process)

\* A faulty first loop of ModifierHotkey::on_release that ignores the tag of
\* the target.
RECURSIVE OnReleaseTargetsUntagged(_, _, _, _, _)
OnReleaseTargetsUntagged(st, self, target, process, l) ==
    IF target = <<>> THEN st
    ELSE OnReleaseTargetsUntagged(
             register_hotkey_on_release(
                 register_hotkey_on_press(st, Head(target).button,
                     HotkeyHook(ConditionModifier(self.modifier_keys), ActivateProcess(l), "Dispatch")),
                 Head(target).button,
                 HotkeyHook(ConditionActivation(l), process, self.native_event_operation)),
             self, Tail(target), process, l)

\* A faulty first loop of ModifierHotkey::on_release that gives the activation
\* hook the operation of the registrar.
RECURSIVE OnReleaseTargetsBlocking(_, _, _, _, _)
OnReleaseTargetsBlocking(st, self, target, process, l) ==
    IF target = <<>> THEN st
    ELSE LET arg == Head(target)
             inactivation_hook ==
                 HotkeyHook(ConditionActivation(l), process, self.native_event_operation)
             activation_hook ==
                 HotkeyHook(ConditionModifier(self.modifier_keys), ActivateProcess(l),
                            self.native_event_operation)
         IN OnReleaseTargetsBlocking(
                IF arg.tag = "Direct"
                THEN register_hotkey_on_release(
                         register_hotkey_on_press(st, arg.button, activation_hook),
                         arg.button, inactivation_hook)
                ELSE register_hotkey_on_press(
                         register_hotkey_on_release(st, arg.button, activation_hook),
                         arg.button, inactivation_hook),
                self, Tail(target), process, l)

\* ModifierHotkey::on_release, first loop: for every target an activation hook
\* (sets the latch, always Dispatch) and an inactivation hook (the callback).
RECURSIVE OnReleaseTargets(_, _, _, _, _)
OnReleaseTargets(st, self, target, process, l) ==
    IF target = <<>> THEN st
    ELSE LET arg == Head(target)
             inactivation_hook ==
                 HotkeyHook(ConditionActivation(l), process, self.native_event_operation)
             activation_hook ==
                 HotkeyHook(ConditionModifier(self.modifier_keys), ActivateProcess(l), "Dispatch")
         IN OnReleaseTargets(
                IF arg.tag = "Direct"
                THEN register_hotkey_on_release(
                         register_hotkey_on_press(st, arg.button, activation_hook),
                         arg.button, inactivation_hook)
                ELSE register_hotkey_on_press(
                         register_hotkey_on_release(st, arg.button, activation_hook),
                         arg.button, inactivation_hook),
                self, Tail(target), process, l)

\* Second and third loop: one inactivation hook per modifier key, registered on
\* the release of a key that must be pressed and on the press of one that must
\* be released.  The keys are distinct buttons, so the order of the walk does
\* not show in the store.
RECURSIVE OnReleaseModifiers(_, _, _, _)
OnReleaseModifiers(st, keys, on_press, hook) ==
    IF keys = {} THEN st
    ELSE LET k == CHOOSE x \in keys : TRUE
         IN OnReleaseModifiers(
                IF on_press THEN register_hotkey_on_press(st, k, hook)
                ELSE register_hotkey_on_release(st, k, hook),
                keys \ {k}, on_press, hook)

ModifierHotkey_on_release(st, self, target, process, l) ==
    LET inactivation_hook ==
            HotkeyHook(ConditionActivation(l), process, self.native_event_operation)
        st1 == OnReleaseTargets(st, self, target, process, l)
        st2 == OnReleaseModifiers(st1, self.modifier_keys.pressed, FALSE, inactivation_hook)
    IN OnReleaseModifiers(st2, self.modifier_keys.released, TRUE, inactivation_hook)

\* RegisterHotkey::on_press, by the registrar it is called on.
on_press(st, self, target, process) ==
    IF self.kind = "Hotkey" THEN Hotkey_on_press(st, target, process)
    ELSE ModifierHotkey_on_press(st, self, target, process)

\* Hotkey::disable and ModifierHotkey::disable: on_press twice with one empty closure.
disable(st, self, target, process) ==
    on_press(on_press(st, self, target, process), self, target, process)

\* A faulty mouse hook constructor that forgets the registrar's modifier keys.
NewMouseHookUngated(self, process) ==
    MouseHook(EmptyModifierKeys, process,
              IF self.kind = "Hotkey" THEN DefaultNativeEventOperation
              ELSE self.native_event_operation)

\* Hotkey::mouse_wheel / mouse_cursor and ModifierHotkey::mouse_wheel / mouse_cursor.
NewMouseHook(self, process) ==
    MouseHook(self.modifier_keys, process,
              IF self.kind = "Hotkey" THEN DefaultNativeEventOperation
              ELSE self.native_event_operation)

\* A faulty add_modifier_keys that replaces the modifier keys of the registrar
\* it is called on instead of adding to them.
add_modifier_keys_replacing(self, modifier_keys) ==
    IF self.kind = "Hotkey"
    THEN ModifierHotkeyNew(ModifierKeysFrom(modifier_keys), DefaultNativeEventOperation)
    ELSE ModifierHotkeyNew(ModifierKeysFrom(modifier_keys), self.native_event_operation)

\* Hotkey::add_modifier_keys starts from the default operation,
\* ModifierHotkey::add_modifier_keys merges and keeps the operation.
add_modifier_keys(self, modifier_keys) ==
    IF self.kind = "Hotkey"
    THEN ModifierHotkeyNew(ModifierKeysFrom(modifier_keys), DefaultNativeEventOperation)
    ELSE ModifierHotkeyNew(ModifierKeysMerge(self.modifier_keys, ModifierKeysFrom(modifier_keys)),
                           self.native_event_operation)

change_native_event_operation(self, operation) ==
    ModifierHotkeyNew(self.modifier_keys, operation)

(***************************************************************************)
(* Events and the injector.                                                *)
(***************************************************************************)
ButtonEvent(target, action, extra) ==
    [kind |-> "button", target |-> target, action |-> action, extra |-> extra]

MouseWheelEvent(extra) ==
    [kind |-> "wheel", target |-> "Wheel", action |-> "Rotate", extra |-> extra]

MouseCursorEvent(extra) ==
    [kind |-> "cursor", target |-> "Cursor", action |-> "Move", extra |-> extra]

\* The events the hook source can deliver: real ones (extra-info 0) and ones
\* that carry the origin tag.
Event ==
    {ButtonEvent(b, a, x) : b \in Button, a \in ButtonAction, x \in ExtraInfo}
    \cup {MouseWheelEvent(x) : x \in ExtraInfo}
    \cup {MouseCursorEvent(x) : x \in ExtraInfo}

\* A faulty injector that leaves dwExtraInfo zero.
send_key_input_untagged(key, action) == ButtonEvent(key, action, 0)

\* send_key_input: the KEYBDINPUT that press (flags 0) and release
\* (KEYEVENTF_KEYUP) hand to a new thread, with dwExtraInfo = DW_EXTRA_INFO.
send_key_input(key, action) == ButtonEvent(key, action, DW_EXTRA_INFO)

\* A faulty remap action that presses whatever the event was.
RemapInputPress(hook, event) == send_key_input(hook.button, "Press")

\* What a remap does with the event it matched: press on a press, release on
\* a release (ButtonRegister::like).
RemapInput(hook, event) ==
    IF event.action = "Press" THEN send_key_input(hook.button, "Press")
    ELSE send_key_input(hook.button, "Release")

(***************************************************************************)
(* Modifier tracker, conditions and the resolver.                          *)
(***************************************************************************)
\* A faulty tracker that records presses only.
TrackerSetPressOnly(trk, button, action) ==
    IF action = "Press" THEN [trk EXCEPT ![button] = TRUE] ELSE trk

\* tracker.set(button, action)
TrackerSet(trk, button, action) == [trk EXCEPT ![button] = (action = "Press")]

Pressed(trk) == {b \in Button : trk[b]}

\* ModifierPredicate::is_satisfied
ModifierKeysSatisfied(mk, trk) ==
    /\ \A b \in mk.pressed : trk[b]
    /\ \A b \in mk.released : ~trk[b]

\* HotkeyCondition::is_satisfied, read against the tracker and the latches.
ConditionSatisfied(c, trk, act) ==
    CASE c.type = "Any" -> TRUE
      [] c.type = "Modifier" -> ModifierKeysSatisfied(c.modifier_keys, trk)
      [] c.type = "Activation" -> act[c.is_active]

\* Evaluating an Activation condition swaps the latch to false.
ConditionSwap(c, act) ==
    IF c.type = "Activation" THEN [act EXCEPT ![c.is_active] = FALSE] ELSE act

\* A faulty scan that stops at the first hook that fires.
ScanHooksFirst(hooks, trk, act) ==
    LET hit == {i \in DOMAIN hooks : hooks[i].condition.type \in {"Any", "Modifier"}
                                     /\ ModifierKeysSatisfied(hooks[i].condition.modifier_keys, trk)}
    IN [fired |-> IF hit = {} THEN <<>>
                  ELSE <<hooks[CHOOSE i \in hit : \A j \in hit : i <= j]>>,
        is_active |-> act]

\* Step 4: scan the hooks in registration order; the hooks that fire, and the
\* latches after the scan.
RECURSIVE ScanHooks(_, _, _)
ScanHooks(hooks, trk, act) ==
    IF hooks = <<>> THEN [fired |-> <<>>, is_active |-> act]
    ELSE LET h == Head(hooks)
             rest == ScanHooks(Tail(hooks), trk, ConditionSwap(h.condition, act))
         IN IF ConditionSatisfied(h.condition, trk, act)
            THEN [fired |-> <<h>> \o rest.fired, is_active |-> rest.is_active]
            ELSE rest

\* Mouse hooks are gated by their registrar's modifier keys.
MouseHooksFired(hooks, trk) ==
    SelectSeq(hooks, LAMBDA h : ModifierKeysSatisfied(h.modifier_keys, trk))

\* Step 5: Block if any matched hook's operation is Block, else Dispatch.
compute_native_event_operation(fired) ==
    IF \E i \in DOMAIN fired : fired[i].native_event_operation = "Block"
    THEN "Block" ELSE "Dispatch"

\* A faulty step 3 that takes every remap registered for the button, whatever
\* its condition.
RemapsRegistered(st, trk, button) == st.remap[button]

\* Step 3: the remaps of the button whose condition is satisfied.
RemapsFired(st, trk, button) ==
    SelectSeq(st.remap[button], LAMBDA h : ModifierKeysSatisfied(h.modifier_keys, trk))

\* A faulty resolver in which a remap that fires does not stop the scan of the
\* hooks.
ResolveButtonScanning(st, trk, act, e) ==
    LET trk1 == TrackerSet(trk, e.target, e.action)
        remaps == RemapsFired(st, trk1, e.target)
        hooks == IF e.action = "Press" THEN st.on_press[e.target] ELSE st.on_release[e.target]
        scan == ScanHooks(hooks, trk1, act)
    IN [tracker |-> trk1, is_active |-> scan.is_active,
        verdict |-> IF remaps # <<>> THEN "Block"
                    ELSE compute_native_event_operation(scan.fired),
        scheduled |-> scan.fired,
        emitted |-> [i \in DOMAIN remaps |-> RemapInput(remaps[i], e)]]

\* A faulty resolver that evaluates the rules before it updates the tracker.
ResolveButtonStale(st, trk, act, e) ==
    LET trk1 == TrackerSet(trk, e.target, e.action)
        remaps == RemapsFired(st, trk, e.target)
        hooks == IF e.action = "Press" THEN st.on_press[e.target] ELSE st.on_release[e.target]
        scan == ScanHooks(hooks, trk, act)
    IN IF remaps # <<>>
       THEN [tracker |-> trk1, is_active |-> act, verdict |-> "Block", scheduled |-> <<>>,
             emitted |-> [i \in DOMAIN remaps |-> RemapInput(remaps[i], e)]]
       ELSE [tracker |-> trk1, is_active |-> scan.is_active,
             verdict |-> compute_native_event_operation(scan.fired),
             scheduled |-> scan.fired, emitted |-> <<>>]

\* A faulty resolver in which a remap that fires lets the original event pass.
ResolveButtonPassing(st, trk, act, e) ==
    LET trk1 == TrackerSet(trk, e.target, e.action)
        remaps == RemapsFired(st, trk1, e.target)
        hooks == IF e.action = "Press" THEN st.on_press[e.target] ELSE st.on_release[e.target]
        scan == ScanHooks(hooks, trk1, act)
    IN IF remaps # <<>>
       THEN [tracker |-> trk1, is_active |-> act, verdict |-> "Dispatch", scheduled |-> <<>>,
             emitted |-> [i \in DOMAIN remaps |-> RemapInput(remaps[i], e)]]
       ELSE [tracker |-> trk1, is_active |-> scan.is_active,
             verdict |-> compute_native_event_operation(scan.fired),
             scheduled |-> scan.fired, emitted |-> <<>>]

\* The resolver on a real button event: the tracker first, then the remaps,
\* then the hooks of the action.
ResolveButton(st, trk, act, e) ==
    LET trk1 == TrackerSet(trk, e.target, e.action)
        remaps == RemapsFired(st, trk1, e.target)
        hooks == IF e.action = "Press" THEN st.on_press[e.target] ELSE st.on_release[e.target]
        scan == ScanHooks(hooks, trk1, act)
    IN IF remaps # <<>>
       THEN [tracker |-> trk1, is_active |-> act, verdict |-> "Block", scheduled |-> <<>>,
             emitted |-> [i \in DOMAIN remaps |-> RemapInput(remaps[i], e)]]
       ELSE [tracker |-> trk1, is_active |-> scan.is_active,
             verdict |-> compute_native_event_operation(scan.fired),
             scheduled |-> scan.fired, emitted |-> <<>>]

\* The resolver on a real wheel or cursor event: no tracker update, no remap.
ResolveMouse(st, trk, act, e) ==
    LET fired == MouseHooksFired(IF e.kind = "wheel" THEN st.mouse_wheel ELSE st.mouse_cursor, trk)
    IN [tracker |-> trk, is_active |-> act,
        verdict |-> compute_native_event_operation(fired),
        scheduled |-> fired, emitted |-> <<>>]

Resolve(st, trk, act, e) ==
    IF e.kind = "button" THEN ResolveButton(st, trk, act, e) ELSE ResolveMouse(st, trk, act, e)

(***************************************************************************)
(* The hook bridge.                                                        *)
(***************************************************************************)
BitAnd1(x, y) == IF x % 2 = 1 /\ y % 2 = 1 THEN 1 ELSE 0

\* A faulty bridge that never recognises the origin tag.
IsInjectedNever(extra) == FALSE

\* A faulty bridge that takes for injected only the events whose extra-info is
\* the tag itself.
IsInjectedExact(extra) == extra = DW_EXTRA_INFO

\* hook_proc: event_info.dwExtraInfo & DW_EXTRA_INFO != 0
IsInjected(extra) == BitAnd1(extra, DW_EXTRA_INFO) # 0

Untouched(trk, act) ==
    [tracker |-> trk, is_active |-> act, verdict |-> "Dispatch",
     scheduled |-> <<>>, emitted |-> <<>>]

\* A faulty emit that blocks the event when no handler is registered.
emit_blocking(has_generator, st, trk, act, e) ==
    IF has_generator THEN Resolve(st, trk, act, e)
    ELSE [Untouched(trk, act) EXCEPT !.verdict = "Block"]

\* EventHandler::emit: with a generator, its callback's verdict (the callback
\* itself is spawned); without one, Unblock.
emit(has_generator, st, trk, act, e) ==
    IF has_generator THEN Resolve(st, trk, act, e) ELSE Untouched(trk, act)

\* hook_proc: a tagged event goes straight to the next hook.
hook_proc(has_generator, st, trk, act, e) ==
    IF IsInjected(e.extra) THEN Untouched(trk, act)
    ELSE emit(has_generator, st, trk, act, e)

\* What the operating system gets back from one call of hook_proc: whether
\* the next hook of the chain was called, the LRESULT, and whether the key
\* state was written.  next_result is what CallNextHookEx returns.
NextHookResult == {0, 1}

call_next_hook(next_result) ==
    [next_hook |-> TRUE, lresult |-> next_result, state_set |-> FALSE]

\* A faulty hook_proc that hands every event to the next hook.
hook_proc_return_passing(has_generator, st, trk, act, e, next_result) ==
    call_next_hook(next_result)

\* hook_proc, its return: a tagged event and an unblocked one go to the next
\* hook; a blocked one sets the key state and returns 1.
hook_proc_return(has_generator, st, trk, act, e, next_result) ==
    IF IsInjected(e.extra) THEN call_next_hook(next_result)
    ELSE IF emit(has_generator, st, trk, act, e).verdict = "Block"
         THEN [next_hook |-> FALSE, lresult |-> 1, state_set |-> TRUE]
         ELSE call_next_hook(next_result)

(***************************************************************************)
(* History kept for the properties.                                        *)
(***************************************************************************)
IsActivation(h, l) == h.process = ActivateProcess(l)

IsInactivation(h, l) == "condition" \in DOMAIN h /\ h.condition = ConditionActivation(l)

Count(seq, Test(_)) == Cardinality({i \in DOMAIN seq : Test(seq[i])})

\* Scenario S3: add_modifier_keys(LCtrl).on_release(Space, cb), then
\* Press(LCtrl), Press(Space), Release(LCtrl), Release(Space).
S3Storage ==
    ModifierHotkey_on_release(EmptyStorage,
        add_modifier_keys(RootHotkey, <<direct("LCtrl")>>),
        <<direct("Space")>>, UserProcess(1), 1)

S3Events ==
    << ButtonEvent("LCtrl", "Press", 0), ButtonEvent("Space", "Press", 0),
       ButtonEvent("LCtrl", "Release", 0), ButtonEvent("Space", "Release", 0) >>

\* step: how many events of S3 have been handled, -1 once the run is not S3;
\* fired: the user callbacks each of them fired.
S3After(st, s, e, scheduled) ==
    IF st = S3Storage /\ s.step >= 0 /\ s.step < Len(S3Events) /\ e = S3Events[s.step + 1]
    THEN [step |-> s.step + 1,
          fired |-> Append(s.fired, Count(scheduled, LAMBDA h : h.process.kind = "user"))]
    ELSE [step |-> -1, fired |-> <<>>]

(***************************************************************************)
(* The state machine.                                                      *)
(***************************************************************************)
NoEvent == [kind |-> "none", target |-> "none", action |-> "none", extra |-> 0]

\* What the history keeps of an event: a real event as it is, an event that
\* carries the origin tag only as such.
InjectedEvent == [kind |-> "injected", target |-> "none", action |-> "none", extra |-> DW_EXTRA_INFO]
Observed(e) == IF IsInjected(e.extra) THEN InjectedEvent ELSE e

Init ==
    /\ phase = "registration"
    /\ registrars = <<RootHotkey>>
    /\ storage = EmptyStorage
    /\ ncalls = 0
    /\ generator = FALSE
    /\ tracker = [b \in Button |-> FALSE]
    /\ is_active = <<>>
    /\ pending = <<>>
    /\ sent = EmptyBag
    /\ last = [event |-> NoEvent, verdict |-> "Dispatch", scheduled |-> <<>>, emitted |-> <<>>]
    /\ last_press = [b \in Button |-> FALSE]
    /\ s3 = [step |-> 0, fired |-> <<>>]
    /\ calls = <<>>
    /\ mutex = 0
    /\ log = <<>>
    /\ threads = <<>>
    /\ IS_ALT_TAB_WORKING = FALSE

\* What the bridge keeps of the calls of hook_proc it is in.
hook_thread == <<calls, mutex, log>>

\* The user code that is followed step by step.
user_code == <<threads, IS_ALT_TAB_WORKING>>

engine == <<generator, tracker, is_active, pending, sent, last, last_press, s3, hook_thread,
            user_code>>

CanRegister == phase = "registration" /\ ncalls < MaxCalls

Remap(r, target, behavior) ==
    /\ CanRegister
    /\ LET res == remap(storage, registrars[r], target, behavior)
       IN /\ storage' = res.storage
          /\ phase' = IF res.panicked THEN "panicked" ELSE phase
    /\ ncalls' = ncalls + 1
    /\ UNCHANGED <<registrars, engine>>

OnPress(r, target) ==
    /\ CanRegister
    /\ storage' = on_press(storage, registrars[r], target, UserProcess(ncalls + 1))
    /\ ncalls' = ncalls + 1
    /\ UNCHANGED <<phase, registrars, engine>>

\* Hotkey::on_release registers plain hooks; ModifierHotkey::on_release creates
\* a latch (Arc::default(): false) and registers the latch protocol.
OnRelease(r, target) ==
    /\ CanRegister
    /\ ncalls' = ncalls + 1
    /\ IF registrars[r].kind = "Hotkey"
       THEN /\ storage' = Hotkey_on_release(storage, target, UserProcess(ncalls + 1))
            /\ UNCHANGED <<is_active, pending>>
       ELSE /\ Cardinality(DOMAIN is_active) < MaxLatches
            /\ storage' = ModifierHotkey_on_release(storage, registrars[r], target,
                                                    UserProcess(ncalls + 1), ncalls + 1)
            /\ is_active' = is_active @@ ((ncalls + 1) :> FALSE)
            /\ pending' = pending @@ ((ncalls + 1) :> 0)
    /\ UNCHANGED <<phase, registrars, generator, tracker, sent, last, last_press, s3,
                   hook_thread, user_code>>

Disable(r, target) ==
    /\ CanRegister
    /\ storage' = disable(storage, registrars[r], target, EmptyProcess(ncalls + 1))
    /\ ncalls' = ncalls + 1
    /\ UNCHANGED <<phase, registrars, engine>>

MouseWheel(r) ==
    /\ CanRegister
    /\ storage' = register_mouse_wheel_hotkey(storage,
                      NewMouseHook(registrars[r], UserProcess(ncalls + 1)))
    /\ ncalls' = ncalls + 1
    /\ UNCHANGED <<phase, registrars, engine>>

MouseCursor(r) ==
    /\ CanRegister
    /\ storage' = register_mouse_cursor_hotkey(storage,
                      NewMouseHook(registrars[r], UserProcess(ncalls + 1)))
    /\ ncalls' = ncalls + 1
    /\ UNCHANGED <<phase, registrars, engine>>

\* A faulty add_modifier_keys that also writes the new context into the
\* registrar it is called on.
AddModifierKeysInPlace(r, modifier_keys) ==
    /\ phase = "registration"
    /\ Len(registrars) < MaxRegistrars
    /\ registrars' = Append([registrars EXCEPT
                                ![r] = add_modifier_keys(registrars[r], modifier_keys)],
                            add_modifier_keys(registrars[r], modifier_keys))
    /\ UNCHANGED <<phase, storage, ncalls, engine>>

AddModifierKeys(r, modifier_keys) ==
    /\ phase = "registration"
    /\ Len(registrars) < MaxRegistrars
    /\ registrars' = Append(registrars, add_modifier_keys(registrars[r], modifier_keys))
    /\ UNCHANGED <<phase, storage, ncalls, engine>>

ChangeNativeEventOperation(r, operation) ==
    /\ phase = "registration"
    /\ Len(registrars) < MaxRegistrars
    /\ registrars' = Append(registrars, change_native_event_operation(registrars[r], operation))
    /\ UNCHANGED <<phase, storage, ncalls, engine>>

\* A faulty install that starts the engine and leaves the registrars alive.
InstallBorrowing ==
    /\ phase = "registration"
    /\ phase' = "running"
    /\ generator' = TRUE
    /\ UNCHANGED <<registrars, storage, ncalls, tracker, is_active, pending, sent, last,
                   last_press, s3, hook_thread, user_code>>

\* Hotkey::install(self): consumes the Hotkey (and with it every registrar that
\* borrows its storage), hands the storage to the runtime and starts it.
Install ==
    /\ phase = "registration"
    /\ phase' = "running"
    /\ registrars' = <<>>
    /\ generator' = TRUE
    /\ UNCHANGED <<storage, ncalls, tracker, is_active, pending, sent, last, last_press, s3,
                   hook_thread, user_code>>

\* The same install when SetWindowsHookExW fails: the null handle is stored as
\* any other, install returns nothing, and InputHandler::handle_input goes on
\* to the event loop, to which no event is ever delivered.
InstallFailing ==
    /\ phase = "registration"
    /\ phase' = "unhooked"
    /\ registrars' = <<>>
    /\ generator' = TRUE
    /\ UNCHANGED <<storage, ncalls, tracker, is_active, pending, sent, last, last_press, s3,
                   hook_thread, user_code>>

\* InputHandler::handle_input of a program that registered no handler.
HandleInput ==
    /\ phase = "registration"
    /\ ncalls = 0
    /\ Len(registrars) = 1
    /\ phase' = "running"
    /\ registrars' = <<>>
    /\ UNCHANGED <<storage, ncalls, engine>>

RECURSIVE SeqToBag(_)
SeqToBag(seq) == IF seq = <<>> THEN EmptyBag ELSE SetToBag({Head(seq)}) (+) SeqToBag(Tail(seq))

\* One call of the bridge with event e; in_flight is what the injector still
\* holds apart from e.
Bridge(e, in_flight) ==
    \E r \in {hook_proc(generator, storage, tracker, is_active, e)} :
    LET spawned == [l \in DOMAIN pending |->
                       IF l = 0
                       THEN IF \E i \in DOMAIN r.scheduled : r.scheduled[i].process.kind # "activate"
                            THEN 1 ELSE 0
                       ELSE Count(r.scheduled, LAMBDA h : IsActivation(h, l))]
    IN /\ tracker' = r.tracker
       /\ is_active' = r.is_active
       /\ pending' = [l \in DOMAIN pending |-> pending[l] + spawned[l]]
       /\ \A l \in DOMAIN pending : pending'[l] <= MaxPending
       /\ sent' = in_flight (+) SeqToBag(r.emitted)
       /\ BagCardinality(sent') <= MaxInFlight
       /\ last' = [event |-> Observed(e), verdict |-> r.verdict,
                   scheduled |-> r.scheduled, emitted |-> r.emitted]
       /\ last_press' = IF e.kind = "button" /\ ~IsInjected(e.extra)
                        THEN [last_press EXCEPT ![e.target] = (e.action = "Press")]
                        ELSE last_press
       /\ s3' = S3After(storage, s3, e, r.scheduled)
       /\ UNCHANGED <<phase, registrars, storage, ncalls, generator, hook_thread, user_code>>

\* The hook source delivers an event.
OsEvent(e) ==
    /\ phase = "running"
    /\ Bridge(e, sent)

\* A SendInput thread of the injector delivers its input.
LoopBack(e) ==
    /\ phase = "running"
    /\ BagIn(e, sent)
    /\ Bridge(e, sent (-) SetToBag({e}))

\* A spawned activation callback runs: is_active.store(true).
RunActivation(l) ==
    /\ phase = "running"
    /\ pending[l] > 0
    /\ is_active' = [is_active EXCEPT ![l] = TRUE]
    /\ pending' = [pending EXCEPT ![l] = @ - 1]
    /\ UNCHANGED <<phase, registrars, storage, ncalls, generator, tracker, sent, last,
                   last_press, s3, hook_thread, user_code>>

Next ==
    \/ \E r \in DOMAIN registrars, target \in ButtonArg, behavior \in Button :
           Remap(r, target, behavior)
    \/ \E r \in DOMAIN registrars, target \in ButtonArg : OnPress(r, target)
    \/ \E r \in DOMAIN registrars, target \in ButtonArg : OnRelease(r, target)
    \/ \E r \in DOMAIN registrars, target \in ButtonArg : Disable(r, target)
    \/ \E r \in DOMAIN registrars : MouseWheel(r)
    \/ \E r \in DOMAIN registrars : MouseCursor(r)
    \/ \E r \in DOMAIN registrars, modifier_keys \in ButtonArg : AddModifierKeys(r, modifier_keys)
    \/ \E r \in DOMAIN registrars, operation \in NativeEventOperation :
           ChangeNativeEventOperation(r, operation)
    \/ Install
    \/ InstallFailing
    \/ HandleInput
    \/ \E e \in Event : OsEvent(e)
    \/ \E e \in Event : LoopBack(e)
    \/ \E l \in DOMAIN is_active : RunActivation(l)

Spec == Init /\ [][Next]_vars

(***************************************************************************)
(* The running engine with the callback threads followed.  Spec follows    *)
(* only the spawned callbacks that set a latch, the others change nothing  *)
(* the engine reads.  LiveSpec starts from an installed store, either of   *)
(* two on_press calls or of one on_release call through a registrar that   *)
(* blocks, and keeps, in pending[0], the batches of callbacks that         *)
(* EventHandler::emit handed to a new thread and that have not run.        *)
(***************************************************************************)
LiveRegistrars ==
    {RootHotkey}
    \cup {change_native_event_operation(RootHotkey, op) : op \in NativeEventOperation}
    \cup {add_modifier_keys(RootHotkey, M) : M \in ButtonArg}

\* The stores that two on_press calls build.
LiveStores ==
    {on_press(on_press(EmptyStorage, r1, T1, UserProcess(1)), r2, T2, UserProcess(2)) :
        r1 \in LiveRegistrars, r2 \in LiveRegistrars, T1 \in ButtonArg, T2 \in ButtonArg}

\* The modifier keys a registrar can carry after one add_modifier_keys, or none.
GatedKeys == {EmptyModifierKeys} \cup {ModifierKeysFrom(M) : M \in ButtonArg}

\* The store that holds on_release(T, cb), registered through a registrar with
\* the modifier keys mk and the operation Block, and nothing else.
GatedBlockStore(mk, T) ==
    ModifierHotkey_on_release(EmptyStorage, ModifierHotkeyNew(mk, "Block"), T, UserProcess(1), 1)

GatedBlockStores == {GatedBlockStore(mk, T) : mk \in GatedKeys, T \in ButtonArg}

LiveInit ==
    /\ phase = "running"
    /\ registrars = <<>>
    /\ \/ /\ storage \in LiveStores
          /\ ncalls = 2
          /\ is_active = <<>>
          /\ pending = (0 :> 0)
       \/ /\ storage \in GatedBlockStores
          /\ ncalls = 1
          /\ is_active = (1 :> FALSE)
          /\ pending = (0 :> 0) @@ (1 :> 0)
    /\ generator = TRUE
    /\ tracker = [b \in Button |-> FALSE]
    /\ sent = EmptyBag
    /\ last = [event |-> NoEvent, verdict |-> "Dispatch", scheduled |-> <<>>, emitted |-> <<>>]
    /\ last_press = [b \in Button |-> FALSE]
    /\ s3 = [step |-> -1, fired |-> <<>>]
    /\ calls = <<>>
    /\ mutex = 0
    /\ log = <<>>
    /\ threads = <<>>
    /\ IS_ALT_TAB_WORKING = FALSE

\* The thread that emit spawned runs the callbacks of its event.
RunCallbacks ==
    /\ phase = "running"
    /\ 0 \in DOMAIN pending
    /\ pending[0] > 0
    /\ pending' = [pending EXCEPT ![0] = @ - 1]
    /\ UNCHANGED <<phase, registrars, storage, ncalls, generator, tracker, is_active, sent,
                   last, last_press, s3, hook_thread, user_code>>

LiveNext ==
    \/ \E e \in Event : OsEvent(e)
    \/ \E l \in DOMAIN is_active : RunActivation(l)
    \/ RunCallbacks

\* A spawned thread is scheduled by the operating system sooner or later.
LiveSpec == LiveInit /\ [][LiveNext]_vars /\ WF_vars(RunCallbacks)

(***************************************************************************)
(* The bridge in steps.  Spec and LiveSpec take one call of hook_proc as   *)
(* one step.  StepSpec follows a call through its code: the tag test, the  *)
(* lock of the handler, the generator (tracker update, then rule scan, as  *)
(* the written specification orders them), thread::spawn and the return of *)
(* the verdict, with the spawned callbacks and the SendInput threads of    *)
(* the injector running in between.                                        *)
(***************************************************************************)
MaxEvents == 2
MaxClicks == 1

\* The stores that the stepwise bridge starts from: on_release(T, cb) through a
\* registrar that blocks, or on_press(T, cb) through the root Hotkey or through
\* its blocking variant.
StepStores ==
    GatedBlockStores
    \cup {on_press(EmptyStorage, r, T, UserProcess(1)) :
             r \in {RootHotkey, change_native_event_operation(RootHotkey, "Block")},
             T \in ButtonArg}

StepInit ==
    /\ phase = "running"
    /\ registrars = <<>>
    /\ storage \in StepStores
    /\ ncalls = 1
    /\ \/ /\ storage \notin GatedBlockStores
          /\ is_active = <<>>
          /\ pending = (0 :> 0)
       \/ /\ storage \in GatedBlockStores
          /\ is_active = (1 :> FALSE)
          /\ pending = (0 :> 0) @@ (1 :> 0)
    /\ generator = TRUE
    /\ tracker = [b \in Button |-> FALSE]
    /\ sent = EmptyBag
    /\ last = [event |-> NoEvent, verdict |-> "Dispatch", scheduled |-> <<>>, emitted |-> <<>>]
    /\ last_press = [b \in Button |-> FALSE]
    /\ s3 = [step |-> -1, fired |-> <<>>]
    /\ calls = <<>>
    /\ mutex = 0
    /\ log = <<>>
    /\ threads = <<>>
    /\ IS_ALT_TAB_WORKING = FALSE

Logged(step) == {i \in DOMAIN log : log[i].step = step}

LogEntry(step, n, e) == [step |-> step, n |-> n, event |-> e]

\* The events that the input stream handed to the bridge so far.
Delivered == Logged("call") \cup Logged("input")

Without(f, n) == [m \in DOMAIN f \ {n} |-> f[m]]

\* A faulty hook source that calls hook_proc again before the call it is in
\* has returned.
CallReentrant(e, from, in_flight) ==
    /\ phase = "running"
    /\ Cardinality(Delivered) < MaxEvents
    /\ LET n == Cardinality(Delivered) + 1
       IN /\ calls' = calls @@ (n :> [pc |-> "entry", event |-> e,
                                      result |-> Untouched(tracker, is_active)])
          /\ log' = Append(log, LogEntry(from, n, e))
    /\ sent' = in_flight
    /\ UNCHANGED <<phase, registrars, storage, ncalls, generator, tracker, is_active, pending,
                   last, last_press, s3, mutex, user_code>>

\* The hook source calls hook_proc with the next event of the input stream.
\* The procedure installed with WH_KEYBOARD_LL is called on the thread that
\* installed it, one event after the other.
Call(e, from, in_flight) ==
    /\ calls = <<>>
    /\ CallReentrant(e, from, in_flight)

\* An event of the devices reaches the input stream.
OsCall(e) == Call(e, "call", sent)

\* A SendInput thread of the injector runs: its input reaches the input stream.
InputCall(e) ==
    /\ BagIn(e, sent)
    /\ Call(e, "input", sent (-) SetToBag({e}))

\* hook_proc, the test of the origin tag.
Entry(n) ==
    /\ calls[n].pc = "entry"
    /\ calls' = [calls EXCEPT ![n].pc = IF IsInjected(calls[n].event.extra)
                                        THEN "return" ELSE "lock"]
    /\ UNCHANGED <<phase, registrars, storage, ncalls, generator, tracker, is_active, pending,
                   sent, last, last_press, s3, mutex, log, user_code>>

\* lock().unwrap(): waits for the lock, panics when the lock is poisoned.
Lock(n) ==
    /\ calls[n].pc = "lock"
    /\ mutex \in {0, -1}
    /\ IF mutex = 0
       THEN /\ mutex' = n
            /\ calls' = [calls EXCEPT ![n].pc = "update"]
            /\ phase' = phase
       ELSE /\ mutex' = mutex
            /\ calls' = Without(calls, n)
            /\ phase' = "panicked"
    /\ UNCHANGED <<registrars, storage, ncalls, generator, tracker, is_active, pending,
                   sent, last, last_press, s3, log, user_code>>

\* The generator, first half: the tracker takes the event.
Update(n) ==
    /\ calls[n].pc = "update"
    /\ tracker' = emit(generator, storage, tracker, is_active, calls[n].event).tracker
    /\ calls' = [calls EXCEPT ![n].pc = "scan"]
    /\ log' = Append(log, LogEntry("update", n, calls[n].event))
    /\ UNCHANGED <<phase, registrars, storage, ncalls, generator, is_active, pending,
                   sent, last, last_press, s3, mutex, user_code>>

\* The generator, second half: the rule scan against the updated tracker.
Scan(n) ==
    /\ calls[n].pc = "scan"
    /\ \E r \in {emit(generator, storage, tracker, is_active, calls[n].event)} :
          /\ is_active' = r.is_active
          /\ sent' = sent (+) SeqToBag(r.emitted)
          /\ calls' = [calls EXCEPT ![n].pc = "spawn", ![n].result = r]
    /\ log' = Append(log, LogEntry("scan", n, calls[n].event))
    /\ UNCHANGED <<phase, registrars, storage, ncalls, generator, tracker, pending,
                   last, last_press, s3, mutex, user_code>>

\* The threads that the scheduled hooks need: one per setter of a latch, one
\* for the batch of the other callbacks.
Spawned(scheduled) ==
    [l \in DOMAIN pending |->
        IF l = 0
        THEN IF \E i \in DOMAIN scheduled : scheduled[i].process.kind # "activate"
             THEN 1 ELSE 0
        ELSE Count(scheduled, LAMBDA h : IsActivation(h, l))]

\* A faulty emit that joins the thread it spawned before it returns.
SpawnJoining(n) ==
    \/ /\ calls[n].pc = "spawn"
       /\ pending' = [l \in DOMAIN pending |-> pending[l] + Spawned(calls[n].result.scheduled)[l]]
       /\ calls' = [calls EXCEPT ![n].pc = "join"]
       /\ UNCHANGED <<phase, registrars, storage, ncalls, generator, tracker, is_active,
                      sent, last, last_press, s3, mutex, log, user_code>>
    \/ /\ calls[n].pc = "join"
       /\ \A l \in DOMAIN pending : pending[l] = 0
       /\ calls' = [calls EXCEPT ![n].pc = "return"]
       /\ UNCHANGED <<phase, registrars, storage, ncalls, generator, tracker, is_active, pending,
                      sent, last, last_press, s3, mutex, log, user_code>>

\* A faulty emit that calls the callbacks itself, under the lock: a callback
\* that panics unwinds the hook thread and poisons the lock.
SpawnInline(n) ==
    /\ calls[n].pc = "spawn"
    /\ \/ /\ mutex' = mutex
          /\ calls' = [calls EXCEPT ![n].pc = "return"]
          /\ log' = log
       \/ /\ \E i \in DOMAIN calls[n].result.scheduled :
                 calls[n].result.scheduled[i].process.kind # "activate"
          /\ mutex' = -1
          /\ calls' = Without(calls, n)
          /\ log' = Append(log, LogEntry("panic", n, calls[n].event))
    /\ UNCHANGED <<phase, registrars, storage, ncalls, generator, tracker, is_active, pending,
                   sent, last, last_press, s3, user_code>>

\* EventHandler::emit: the verdict is taken and the callbacks are handed to
\* thread::spawn.
Spawn(n) ==
    /\ calls[n].pc = "spawn"
    /\ pending' = [l \in DOMAIN pending |-> pending[l] + Spawned(calls[n].result.scheduled)[l]]
    /\ calls' = [calls EXCEPT ![n].pc = "return"]
    /\ UNCHANGED <<phase, registrars, storage, ncalls, generator, tracker, is_active,
                   sent, last, last_press, s3, mutex, log, user_code>>

\* hook_proc returns the verdict: 1 for Block, call_next_hook for Unblock; the
\* lock guard of the handler goes out of scope.
Return(n) ==
    /\ calls[n].pc = "return"
    /\ mutex' = IF mutex = n THEN 0 ELSE mutex
    /\ calls' = Without(calls, n)
    /\ last' = [event |-> Observed(calls[n].event), verdict |-> calls[n].result.verdict,
                scheduled |-> calls[n].result.scheduled, emitted |-> calls[n].result.emitted]
    /\ last_press' = IF calls[n].event.kind = "button" /\ ~IsInjected(calls[n].event.extra)
                     THEN [last_press EXCEPT ![calls[n].event.target] =
                                                 (calls[n].event.action = "Press")]
                     ELSE last_press
    /\ log' = Append(log, LogEntry("verdict", n, calls[n].event))
    /\ UNCHANGED <<phase, registrars, storage, ncalls, generator, tracker, is_active, pending,
                   sent, s3, user_code>>

\* The thread of a batch of callbacks ends in a panic of one of them: the
\* thread unwinds; it holds no lock of the bridge.
PanicCallbacks ==
    /\ phase = "running"
    /\ pending[0] > 0
    /\ pending' = [pending EXCEPT ![0] = @ - 1]
    /\ log' = Append(log, LogEntry("panic", 0, NoEvent))
    /\ UNCHANGED <<phase, registrars, storage, ncalls, generator, tracker, is_active, sent,
                   last, last_press, s3, calls, mutex, user_code>>

\* EmulateKeyboardInput::click of some caller: press(), then release(), each
\* a send_key_input that hands its input to a thread of its own.
Click(b) ==
    /\ phase = "running"
    /\ Cardinality(Logged("click")) < MaxClicks
    /\ sent' = sent (+) SetToBag({send_key_input(b, "Press")})
                    (+) SetToBag({send_key_input(b, "Release")})
    /\ log' = Append(log, LogEntry("click", 0, send_key_input(b, "Press")))
    /\ UNCHANGED <<phase, registrars, storage, ncalls, generator, tracker, is_active, pending,
                   last, last_press, s3, calls, mutex, user_code>>

\* The steps of the hook thread.
HookThread ==
    \E n \in DOMAIN calls : Entry(n) \/ Lock(n) \/ Update(n) \/ Scan(n) \/ Spawn(n) \/ Return(n)

StepNext ==
    \/ \E e \in Event : OsCall(e)
    \/ \E e \in Event : InputCall(e)
    \/ \E n \in DOMAIN calls : Entry(n)
    \/ \E n \in DOMAIN calls : Lock(n)
    \/ \E n \in DOMAIN calls : Update(n)
    \/ \E n \in DOMAIN calls : Scan(n)
    \/ \E n \in DOMAIN calls : Spawn(n)
    \/ \E n \in DOMAIN calls : Return(n)
    \/ \E l \in DOMAIN is_active : RunActivation(l)
    \/ RunCallbacks
    \/ PanicCallbacks
    \/ \E b \in Button : Click(b)

\* The hook thread runs; nothing is assumed of the threads of the callbacks,
\* which may never end, nor of the SendInput threads.
StepSpec == StepInit /\ [][StepNext]_vars /\ WF_vars(HookThread)

(***************************************************************************)
(* Aggregate button names.  hotkey! and arg! turn a written button name    *)
(* into a ButtonArg with button_name! and ExpandButtonArg; the name Shift  *)
(* stands for the constant SHIFT of the module button, which is not part   *)
(* of the sources at hand and is taken, as the written specification has   *)
(* it, to expand into its concrete variants LShift and RShift.             *)
(* ModifierSpec is the engine of a program that opens one modifier block,  *)
(* registers on_press(Space, cb) in it and installs.                       *)
(***************************************************************************)
ShiftVariants == {"LShift", "RShift"}

SHIFT == <<direct("LShift"), direct("RShift")>>

ButtonName == {"Shift", "LShift", "RShift", "LCtrl"}

\* ExpandButtonArg::expand of ButtonArg and of Button.
ButtonArg_expand(self) == self

Button_expand(self) == <<direct(self)>>

\* button_name! and the expand of what it names: an aggregate name is its
\* constant, any other name the Button.
expand(name) == IF name = "Shift" THEN ButtonArg_expand(SHIFT) ELSE Button_expand(name)

\* ExpandButtonArg::expand_inverse.
expand_inverse(name) == [i \in DOMAIN expand(name) |-> invert(expand(name)[i])]

\* arg! with one written argument, plain or with "!".
WrittenArg == [name : ButtonName, negated : BOOLEAN]

arg(w) == IF w.negated THEN expand_inverse(w.name) ELSE expand(w.name)

ModifierInit ==
    /\ phase = "registration"
    /\ registrars = <<RootHotkey>>
    /\ storage = EmptyStorage
    /\ ncalls = 0
    /\ generator = FALSE
    /\ tracker = [b \in Button \cup ShiftVariants |-> FALSE]
    /\ is_active = <<>>
    /\ pending = <<>>
    /\ sent = EmptyBag
    /\ last = [event |-> NoEvent, verdict |-> "Dispatch", scheduled |-> <<>>, emitted |-> <<>>]
    /\ last_press = [b \in Button |-> FALSE]
    /\ s3 = [step |-> -1, fired |-> <<>>]
    /\ calls = <<>>
    /\ mutex = 0
    /\ log = <<>>
    /\ threads = <<>>
    /\ IS_ALT_TAB_WORKING = FALSE

\* hotkey!: "modifier w { .. }" is add_modifier_keys(arg!(w)) on the registrar
\* of the enclosing block.
ModifierBlock(w) ==
    /\ phase = "registration"
    /\ Len(registrars) = 1
    /\ registrars' = Append(registrars, add_modifier_keys(registrars[1], arg(w)))
    /\ UNCHANGED <<phase, storage, ncalls, engine>>

\* hotkey!: "on_press Space => cb" inside the modifier block.
BlockOnPress ==
    /\ Len(registrars) = 2
    /\ ncalls = 0
    /\ OnPress(2, <<direct("Space")>>)

\* A real event of a variant of Shift reaches the resolver: the store has no
\* hook for the button, the tracker takes the event.
ShiftEvent(b, action) ==
    /\ phase = "running"
    /\ tracker' = TrackerSet(tracker, b, action)
    /\ UNCHANGED <<phase, registrars, storage, ncalls, generator, is_active, pending, sent,
                   last, last_press, s3, hook_thread, user_code>>

ModifierNext ==
    \/ \E w \in WrittenArg : ModifierBlock(w)
    \/ BlockOnPress
    \/ Install
    \/ \E b \in ShiftVariants, action \in ButtonAction : ShiftEvent(b, action)
    \/ \E b \in Button, action \in ButtonAction : OsEvent(ButtonEvent(b, action, 0))

ModifierSpec == ModifierInit /\ [][ModifierNext]_vars

(***************************************************************************)
(* seq! and send!.  SendSpec is one run of send!(inputs) by some thread,   *)
(* followed input by input, for every written argument of the bounded set  *)
(* SendArgs and every key state with at most MaxHeld modifiers held.  The  *)
(* log keeps the inputs in the order they are handed to the injector; the  *)
(* tracker is the key state that ButtonState::is_pressed reads when the    *)
(* run starts.                                                             *)
(***************************************************************************)
MaxInputs == 2
MaxHeld == 2

MODIFIER_LIST == <<"LShift", "RShift", "LCtrl", "RCtrl", "LAlt", "RAlt", "LMeta", "RMeta">>

Modifiers == {MODIFIER_LIST[i] : i \in DOMAIN MODIFIER_LIST}

\* One written input of seq!: a button name, alone or with down or up.
SeqInput == [button : {"A", "LShift"}, action : {"click", "down", "up"}]

\* The written arguments: with(..) or not, then at most MaxInputs inputs.
SendArgs ==
    [with : {<<>>, <<"LCtrl">>, <<"LCtrl", "LShift">>},
     rest : UNION {[1..n -> SeqInput] : n \in 0..MaxInputs}]

\* seq!, the with(..) rule: $($modifier down,)* $($rest)* $($modifier up),*
seq_with(args) ==
    [i \in DOMAIN args.with |-> [button |-> args.with[i], action |-> "down"]]
    \o args.rest
    \o [i \in DOMAIN args.with |-> [button |-> args.with[i], action |-> "up"]]

\* seq!, the @single rules: click (press, then release), press, release.
single(input) ==
    CASE input.action = "click" -> <<send_key_input(input.button, "Press"),
                                     send_key_input(input.button, "Release")>>
      [] input.action = "down" -> <<send_key_input(input.button, "Press")>>
      [] input.action = "up" -> <<send_key_input(input.button, "Release")>>

\* A faulty filter that takes every modifier of the list.
pressed_modifiers_all(trk) == MODIFIER_LIST

\* send!: MODIFIER_LIST.iter().filter(is_pressed).collect()
pressed_modifiers(trk) == SelectSeq(MODIFIER_LIST, LAMBDA button : trk[button])

Emitted(inputs) == [i \in DOMAIN inputs |-> LogEntry("emit", 1, inputs[i])]

SendInit ==
    /\ phase = "running"
    /\ registrars = <<>>
    /\ storage = EmptyStorage
    /\ ncalls = 0
    /\ generator = FALSE
    /\ tracker \in [Modifiers -> BOOLEAN]
    /\ Cardinality({b \in Modifiers : tracker[b]}) <= MaxHeld
    /\ is_active = <<>>
    /\ pending = <<>>
    /\ sent = EmptyBag
    /\ last = [event |-> NoEvent, verdict |-> "Dispatch", scheduled |-> <<>>, emitted |-> <<>>]
    /\ last_press = [b \in Button |-> FALSE]
    /\ s3 = [step |-> -1, fired |-> <<>>]
    /\ calls = <<>>
    /\ mutex = 0
    /\ log = <<>>
    /\ \E args \in SendArgs :
           threads = (1 :> [pc |-> "filter", args |-> args, pressed_modifiers |-> <<>>, i |-> 1])
    /\ IS_ALT_TAB_WORKING = FALSE

SendFrame ==
    UNCHANGED <<phase, registrars, storage, ncalls, generator, tracker, is_active, pending, sent,
                last, last_press, s3, calls, mutex, IS_ALT_TAB_WORKING>>

\* let pressed_modifiers = ..
SendFilter ==
    /\ threads[1].pc = "filter"
    /\ threads' = [threads EXCEPT ![1].pc = "release",
                                  ![1].pressed_modifiers = pressed_modifiers(tracker)]
    /\ log' = log
    /\ SendFrame

\* pressed_modifiers.iter().for_each(release)
SendRelease ==
    /\ threads[1].pc = "release"
    /\ IF threads[1].i <= Len(threads[1].pressed_modifiers)
       THEN /\ log' = log \o Emitted(<<send_key_input(threads[1].pressed_modifiers[threads[1].i],
                                                      "Release")>>)
            /\ threads' = [threads EXCEPT ![1].i = @ + 1]
       ELSE /\ log' = log
            /\ threads' = [threads EXCEPT ![1].pc = "seq", ![1].i = 1]
    /\ SendFrame

\* seq!($($input)*), one written input after the other.
SendSeq ==
    /\ threads[1].pc = "seq"
    /\ IF threads[1].i <= Len(seq_with(threads[1].args))
       THEN /\ log' = log \o Emitted(single(seq_with(threads[1].args)[threads[1].i]))
            /\ threads' = [threads EXCEPT ![1].i = @ + 1]
       ELSE /\ log' = log
            /\ threads' = [threads EXCEPT ![1].pc = "press", ![1].i = 1]
    /\ SendFrame

\* pressed_modifiers.iter().for_each(press)
SendPress ==
    /\ threads[1].pc = "press"
    /\ IF threads[1].i <= Len(threads[1].pressed_modifiers)
       THEN /\ log' = log \o Emitted(<<send_key_input(threads[1].pressed_modifiers[threads[1].i],
                                                      "Press")>>)
            /\ threads' = [threads EXCEPT ![1].i = @ + 1]
       ELSE /\ log' = log
            /\ threads' = [threads EXCEPT ![1].pc = "done", ![1].i = 1]
    /\ SendFrame

SendNext == SendFilter \/ SendRelease \/ SendSeq \/ SendPress

SendSpec == SendInit /\ [][SendNext]_vars

(***************************************************************************)
(* arg! / buttons! with several written arguments.  ArgSpec is one call of *)
(* the macro for every written list of the bounded set WrittenList: each   *)
(* argument is a button name or a bracketed ButtonArg expression, plain or *)
(* with "!".                                                               *)
(***************************************************************************)
MaxWritten == 2
MaxSpliced == 2

\* The values a bracketed expression can have.
SplicedArg == UNION {[1..n -> ButtonArgElement] : n \in 1..MaxSpliced}

WrittenItem ==
    [kind : {"name"}, value : Button, negated : BOOLEAN]
    \cup [kind : {"expr"}, value : SplicedArg, negated : BOOLEAN]

WrittenList == UNION {[1..n -> WrittenItem] : n \in 1..MaxWritten}

\* A faulty expansion that loses the "!" in front of a bracketed expression.
arg_item_plain(item) ==
    IF item.kind = "name"
    THEN IF item.negated THEN <<inversion(item.value)>> ELSE <<direct(item.value)>>
    ELSE ButtonArg_expand(item.value)

\* arg!, one argument: expand or expand_inverse of button_name!(argument),
\* with the impl of the type of the argument.
arg_item(item) ==
    LET expanded == IF item.kind = "name" THEN Button_expand(item.value)
                    ELSE ButtonArg_expand(item.value)
    IN IF item.negated THEN [i \in DOMAIN expanded |-> invert(expanded[i])] ELSE expanded

\* FromIterator for ButtonArg: Vec::from_iter(iter.into_iter().flatten()).
RECURSIVE from_iter(_)
from_iter(parts) == IF parts = <<>> THEN <<>> ELSE Head(parts) \o from_iter(Tail(parts))

\* arg!, the whole list.
arg_list(items) == from_iter([i \in DOMAIN items |-> arg_item(items[i])])

ArgInit ==
    /\ phase = "registration"
    /\ registrars = <<RootHotkey>>
    /\ storage = EmptyStorage
    /\ ncalls = 0
    /\ generator = FALSE
    /\ tracker = [b \in Button |-> FALSE]
    /\ is_active = <<>>
    /\ pending = <<>>
    /\ sent = EmptyBag
    /\ last = [event |-> NoEvent, verdict |-> "Dispatch", scheduled |-> <<>>, emitted |-> <<>>]
    /\ last_press = [b \in Button |-> FALSE]
    /\ s3 = [step |-> -1, fired |-> <<>>]
    /\ calls = <<>>
    /\ mutex = 0
    /\ log = <<>>
    /\ \E items \in WrittenList :
           threads = (1 :> [pc |-> "arg", written |-> items, value |-> <<>>])
    /\ IS_ALT_TAB_WORKING = FALSE

\* The macro is evaluated.
ArgNext ==
    /\ threads[1].pc = "arg"
    /\ threads' = [threads EXCEPT ![1].pc = "done", ![1].value = arg_list(threads[1].written)]
    /\ UNCHANGED <<phase, registrars, storage, ncalls, generator, tracker, is_active, pending,
                   sent, last, last_press, s3, hook_thread, IS_ALT_TAB_WORKING>>

ArgSpec == ArgInit /\ [][ArgNext]_vars

(***************************************************************************)
(* on_release with two targets.  PairSpec is the stepwise bridge over the  *)
(* stores that one call add_modifier_keys(M).on_release([A, B], cb) builds *)
(* for two different buttons A and B.                                      *)
(***************************************************************************)
PairTargets ==
    {<<direct(A), direct(B)>> : A \in Button, B \in Button} \ {<<direct(b), direct(b)>> : b \in Button}

PairStores == {GatedBlockStore(mk, T) : mk \in GatedKeys, T \in PairTargets}

PairInit ==
    /\ phase = "running"
    /\ registrars = <<>>
    /\ storage \in PairStores
    /\ ncalls = 1
    /\ is_active = (1 :> FALSE)
    /\ pending = (0 :> 0) @@ (1 :> 0)
    /\ generator = TRUE
    /\ tracker = [b \in Button |-> FALSE]
    /\ sent = EmptyBag
    /\ last = [event |-> NoEvent, verdict |-> "Dispatch", scheduled |-> <<>>, emitted |-> <<>>]
    /\ last_press = [b \in Button |-> FALSE]
    /\ s3 = [step |-> -1, fired |-> <<>>]
    /\ calls = <<>>
    /\ mutex = 0
    /\ log = <<>>
    /\ threads = <<>>
    /\ IS_ALT_TAB_WORKING = FALSE

PairSpec == PairInit /\ [][StepNext]_vars /\ WF_vars(HookThread)

(***************************************************************************)
(* Nested registrars.  NestSpec starts from a registrar that the root      *)
(* Hotkey handed out (modifier X { .. }, block { .. } or dispatch { .. }   *)
(* of hotkey!) and follows the registrars derived from it and the hooks    *)
(* registered through them.                                                *)
(***************************************************************************)
NestInit ==
    /\ phase = "registration"
    /\ \E parent \in LiveRegistrars : registrars = <<parent>>
    /\ storage = EmptyStorage
    /\ ncalls = 0
    /\ generator = FALSE
    /\ tracker = [b \in Button |-> FALSE]
    /\ is_active = <<>>
    /\ pending = <<>>
    /\ sent = EmptyBag
    /\ last = [event |-> NoEvent, verdict |-> "Dispatch", scheduled |-> <<>>, emitted |-> <<>>]
    /\ last_press = [b \in Button |-> FALSE]
    /\ s3 = [step |-> -1, fired |-> <<>>]
    /\ calls = <<>>
    /\ mutex = 0
    /\ log = <<>>
    /\ threads = <<>>
    /\ IS_ALT_TAB_WORKING = FALSE

NestNext ==
    \/ \E r \in DOMAIN registrars, modifier_keys \in ButtonArg : AddModifierKeys(r, modifier_keys)
    \/ \E r \in DOMAIN registrars, operation \in NativeEventOperation :
           ChangeNativeEventOperation(r, operation)
    \/ \E r \in DOMAIN registrars, target \in ButtonArg : OnPress(r, target)

NestSpec == NestInit /\ [][NestNext]_vars

(***************************************************************************)
(* The utility bind_alt_tab.  AltTabSpec is the engine over the store that *)
(* Hotkey::new().bind_alt_tab(LCtrl, Space) builds, with the two closures  *)
(* of the utility followed statement by statement in the threads that emit *)
(* spawns for them.  The log has the events of the devices, the starts of  *)
(* the closure of on_release and the inputs that the closures issue.       *)
(***************************************************************************)
MaxKeys == 6

\* bind_alt_tab(alt, tab) of the root registrar: callback 1 is the closure of
\* on_release [alt], callback 3 the closure of on_press [tab].
bind_alt_tab(alt, tab) ==
    on_press(disable(Hotkey_on_release(EmptyStorage, alt, UserProcess(1)),
                     add_modifier_keys(RootHotkey, alt), tab, EmptyProcess(2)),
             add_modifier_keys(RootHotkey, alt), tab, UserProcess(3))

AltTabInit ==
    /\ phase = "running"
    /\ registrars = <<>>
    /\ storage = bind_alt_tab(<<direct("LCtrl")>>, <<direct("Space")>>)
    /\ ncalls = 3
    /\ generator = TRUE
    /\ tracker = [b \in Button |-> FALSE]
    /\ is_active = <<>>
    /\ pending = <<>>
    /\ sent = EmptyBag
    /\ last = [event |-> NoEvent, verdict |-> "Dispatch", scheduled |-> <<>>, emitted |-> <<>>]
    /\ last_press = [b \in Button |-> FALSE]
    /\ s3 = [step |-> -1, fired |-> <<>>]
    /\ calls = <<>>
    /\ mutex = 0
    /\ log = <<>>
    /\ threads = <<>>
    /\ IS_ALT_TAB_WORKING = FALSE

AltTabFrame ==
    UNCHANGED <<phase, registrars, storage, ncalls, generator, is_active, pending, sent, last,
                last_press, s3, calls, mutex>>

\* The callbacks that the thread of emit calls, in the order of the scan.
RECURSIVE Callbacks(_)
Callbacks(scheduled) ==
    IF scheduled = <<>> THEN <<>>
    ELSE IF Head(scheduled).process.kind = "user"
         THEN <<Head(scheduled).process.id>> \o Callbacks(Tail(scheduled))
         ELSE Callbacks(Tail(scheduled))

\* hook_proc with an event of the devices; a button that is up is not
\* released.  emit spawns the thread that calls the callbacks.
AltTabEvent(e) ==
    /\ Cardinality(Logged("call")) < MaxKeys
    /\ e.kind = "button" /\ e.extra = 0
    /\ e.action = "Release" => tracker[e.target]
    /\ \E r \in {hook_proc(generator, storage, tracker, is_active, e)} :
          /\ tracker' = r.tracker
          /\ threads' = IF Callbacks(r.scheduled) = <<>> THEN threads
                        ELSE threads @@ (Cardinality(Logged("call")) + 1 :>
                                            [pc |-> "start", todo |-> Callbacks(r.scheduled)])
    /\ log' = Append(log, LogEntry("call", Cardinality(Logged("call")) + 1, e))
    /\ IS_ALT_TAB_WORKING' = IS_ALT_TAB_WORKING
    /\ AltTabFrame

\* The closure has returned: the thread calls the next one, or ends.
Returned_from(t) ==
    IF Len(threads[t].todo) = 1 THEN Without(threads, t)
    ELSE [threads EXCEPT ![t].pc = "start", ![t].todo = Tail(@)]

\* if !IS_ALT_TAB_WORKING.swap(true, SeqCst)
TabSwap(t) ==
    /\ threads[t].pc = "start" /\ Head(threads[t].todo) = 3
    /\ IS_ALT_TAB_WORKING' = TRUE
    /\ threads' = [threads EXCEPT ![t].pc = IF IS_ALT_TAB_WORKING THEN "tab" ELSE "down"]
    /\ UNCHANGED <<tracker, log>>
    /\ AltTabFrame

\* seq!(LAlt down)
TabDown(t) ==
    /\ threads[t].pc = "down"
    /\ log' = Append(log, LogEntry("emit", t, send_key_input("LAlt", "Press")))
    /\ threads' = [threads EXCEPT ![t].pc = "tab"]
    /\ UNCHANGED <<tracker, IS_ALT_TAB_WORKING>>
    /\ AltTabFrame

\* seq!(Tab): Button::Tab.click()
TabClick(t) ==
    /\ threads[t].pc = "tab"
    /\ log' = log \o <<LogEntry("emit", t, send_key_input("Tab", "Press")),
                       LogEntry("emit", t, send_key_input("Tab", "Release"))>>
    /\ threads' = Returned_from(t)
    /\ UNCHANGED <<tracker, IS_ALT_TAB_WORKING>>
    /\ AltTabFrame

\* IS_ALT_TAB_WORKING.store(false, SeqCst)
ReleaseStore(t) ==
    /\ threads[t].pc = "start" /\ Head(threads[t].todo) = 1
    /\ IS_ALT_TAB_WORKING' = FALSE
    /\ log' = Append(log, LogEntry("run", t, NoEvent))
    /\ threads' = [threads EXCEPT ![t].pc = "up"]
    /\ UNCHANGED tracker
    /\ AltTabFrame

\* seq!(LAlt up)
ReleaseUp(t) ==
    /\ threads[t].pc = "up"
    /\ log' = Append(log, LogEntry("emit", t, send_key_input("LAlt", "Release")))
    /\ threads' = Returned_from(t)
    /\ UNCHANGED <<tracker, IS_ALT_TAB_WORKING>>
    /\ AltTabFrame

AltTabNext ==
    \/ \E e \in Event : AltTabEvent(e)
    \/ \E t \in DOMAIN threads : TabSwap(t)
    \/ \E t \in DOMAIN threads : TabDown(t)
    \/ \E t \in DOMAIN threads : TabClick(t)
    \/ \E t \in DOMAIN threads : ReleaseStore(t)
    \/ \E t \in DOMAIN threads : ReleaseUp(t)

AltTabSpec == AltTabInit /\ [][AltTabNext]_vars

(***************************************************************************)
(* remap with several input buttons.  RemapSpec is the registration phase  *)
(* with remap calls only, through a registrar that the root handed out,    *)
(* and with one or two input buttons a call.                               *)
(***************************************************************************)
RemapTargets == UNION {[1..n -> ButtonArgElement] : n \in 1..2}

RemapNext ==
    \E r \in DOMAIN registrars, target \in RemapTargets, behavior \in Button :
        Remap(r, target, behavior)

RemapSpec == NestInit /\ [][RemapNext]_vars

(***************************************************************************)
(* EventHandler by itself.  In the specifications above the handler has    *)
(* the one generator of the runtime or none, and the variable generator is *)
(* a boolean.  HandlerSpec follows an EventHandler whose user registers    *)
(* generators of his own: there the variable generator is the Option of    *)
(* the code, the empty sequence for None and <<g>> for Some(g).  A         *)
(* generator g returns callbacks whose get_event_block is                  *)
(* get_event_block(g).  The log has the calls of register_handler and, for *)
(* every emit, its start, the generators it called, the threads it spawned *)
(* and the value it returned.                                              *)
(***************************************************************************)
MaxGenerators == 2

Generator == 1..MaxGenerators

get_event_block(g) == IF g % 2 = 1 THEN "Block" ELSE "Unblock"

\* A faulty register_handler that keeps the generator it finds.
register_handler_keeping(option, g) == IF option = <<>> THEN <<g>> ELSE option

\* register_handler: Option::insert.
register_handler(option, g) == <<g>>

is_handler_registered(option) == option # <<>>

\* emit: what it called, what it spawned and what it returned.
EventHandler_emit(option, n, e) ==
    IF option # <<>>
    THEN [log |-> <<LogEntry("generate", option[1], e), LogEntry("spawn", option[1], e),
                    LogEntry(get_event_block(option[1]), n, e)>>,
          threads |-> (n :> [pc |-> "call", callback |-> option[1]])]
    ELSE [log |-> <<LogEntry("Unblock", n, e)>>, threads |-> <<>>]

HandlerInit ==
    /\ phase = "running"
    /\ registrars = <<>>
    /\ storage = EmptyStorage
    /\ ncalls = 0
    /\ generator = <<>>
    /\ tracker = [b \in Button |-> FALSE]
    /\ is_active = <<>>
    /\ pending = <<>>
    /\ sent = EmptyBag
    /\ last = [event |-> NoEvent, verdict |-> "Dispatch", scheduled |-> <<>>, emitted |-> <<>>]
    /\ last_press = [b \in Button |-> FALSE]
    /\ s3 = [step |-> -1, fired |-> <<>>]
    /\ calls = <<>>
    /\ mutex = 0
    /\ log = <<>>
    /\ threads = <<>>
    /\ IS_ALT_TAB_WORKING = FALSE

HandlerFrame ==
    UNCHANGED <<phase, registrars, storage, ncalls, tracker, is_active, pending, sent, last,
                last_press, s3, calls, mutex, IS_ALT_TAB_WORKING>>

RegisterHandler(g) ==
    /\ Cardinality(Logged("register")) < MaxGenerators
    /\ generator' = register_handler(generator, g)
    /\ log' = Append(log, LogEntry("register", g, NoEvent))
    /\ threads' = threads
    /\ HandlerFrame

Emit(e) ==
    /\ Cardinality(Logged("emit")) < MaxEvents
    /\ \E r \in {EventHandler_emit(generator, Cardinality(Logged("emit")) + 1, e)} :
          /\ log' = Append(log, LogEntry("emit", Cardinality(Logged("emit")) + 1, e)) \o r.log
          /\ threads' = threads @@ r.threads
    /\ generator' = generator
    /\ HandlerFrame

\* The spawned thread runs event_callback.call().
CallbackCall(t) ==
    /\ threads[t].pc = "call"
    /\ threads' = Without(threads, t)
    /\ log' = Append(log, LogEntry("callback", threads[t].callback, NoEvent))
    /\ generator' = generator
    /\ HandlerFrame

HandlerNext ==
    \/ \E g \in Generator : RegisterHandler(g)
    \/ \E e \in Event : Emit(e)
    \/ \E t \in DOMAIN threads : CallbackCall(t)

HandlerSpec == HandlerInit /\ [][HandlerNext]_vars

(***************************************************************************)
(* The test of the origin tag.  dwExtraInfo is a field that any program    *)
(* that calls SendInput fills as it likes.  TagSpec is the running engine  *)
(* of LiveSpec with keyboard events whose dwExtraInfo is any value up to   *)
(* MaxExtra.                                                               *)
(***************************************************************************)
MaxExtra == 3

WideEvent == {ButtonEvent(b, a, x) : b \in Button, a \in ButtonAction, x \in 0..MaxExtra}

TagNext ==
    \/ \E e \in WideEvent : OsEvent(e)
    \/ \E l \in DOMAIN is_active : RunActivation(l)
    \/ RunCallbacks

TagSpec == LiveInit /\ [][TagNext]_vars

(***************************************************************************)
(* Properties.  They are stated with their own reading of the tracker and  *)
(* of the modifier predicate, so that they do not repeat the resolver.     *)
(***************************************************************************)
RealEvent == {e \in Event : e.extra = 0}

RealButtonEvent == {e \in RealEvent : e.kind = "button"}

TaggedEvent == {e \in Event : e.extra = DW_EXTRA_INFO}

\* What the bridge does with event e in the current state.
Handled(e) == hook_proc(generator, storage, tracker, is_active, e)

\* The pressed state of every button once the real button event e is ingested.
TrackerAfter(e) == [b \in Button |-> IF b = e.target THEN e.action = "Press" ELSE tracker[b]]

\* Every button of mk.pressed is pressed and no button of mk.released is.
Holds(mk, trk) ==
    /\ mk.pressed \subseteq {b \in Button : trk[b]}
    /\ mk.released \cap {b \in Button : trk[b]} = {}

HookList(e) ==
    IF e.action = "Press" THEN storage.on_press[e.target] ELSE storage.on_release[e.target]

MouseList(e) == IF e.kind = "wheel" THEN storage.mouse_wheel ELSE storage.mouse_cursor

\* Some remap registered for the button of e has its condition satisfied.
RemapMatches(e) ==
    \E i \in DOMAIN storage.remap[e.target] :
        Holds(storage.remap[e.target][i].modifier_keys, TrackerAfter(e))

Occurrences(seq, x) == Cardinality({i \in DOMAIN seq : seq[i] = x})

UserCallbacks(seq) == Cardinality({i \in DOMAIN seq : seq[i].process.kind = "user"})

\* C1: an event that carries the origin tag leaves the tracker (and the
\* latches) as they are, matches and schedules no remap and no hook, and gets
\* the verdict Dispatch, in every reachable state and for every rule store.
PassedThrough(r) ==
    /\ r.tracker = tracker
    /\ r.is_active = is_active
    /\ r.scheduled = <<>>
    /\ r.emitted = <<>>
    /\ r.verdict = "Dispatch"

C1_InjectedUntouched ==
    /\ \A e \in TaggedEvent : PassedThrough(Handled(e))
    /\ last.event = InjectedEvent =>
           last.verdict = "Dispatch" /\ last.scheduled = <<>> /\ last.emitted = <<>>

\* A tagged event has gone through the bridge of an installed engine whose
\* store holds an unconditional on_press hook for a button that is up.
C1_Witness ==
    /\ phase = "running" /\ generator
    /\ last.event = InjectedEvent
    /\ \E b \in Button :
           /\ ~tracker[b]
           /\ \E i \in DOMAIN storage.on_press[b] : storage.on_press[b][i].condition = ConditionAny

\* C2: what the injector emits carries the origin tag, and when it comes back
\* through the bridge it gets Dispatch, fires no hook of the emitted button
\* and leaves the tracker entry of that button as it is.
RoundTrip(e) ==
    /\ e.extra = DW_EXTRA_INFO
    /\ Handled(e).verdict = "Dispatch"
    /\ Handled(e).scheduled = <<>>
    /\ Handled(e).tracker[e.target] = tracker[e.target]

C2_LoopBack ==
    /\ \A b \in Button, a \in ButtonAction : RoundTrip(send_key_input(b, a))
    /\ \A e \in BagToSet(sent) :
           /\ \E b \in Button, a \in ButtonAction : e = send_key_input(b, a)
           /\ RoundTrip(e)

\* Scenario S5: a remap has emitted Press(B), which is still in flight, and an
\* unconditional on_press hook is registered for B, which is up.
C2_Witness ==
    /\ phase = "running"
    /\ \E b \in Button :
           /\ BagIn(ButtonEvent(b, "Press", DW_EXTRA_INFO), sent)
           /\ ~tracker[b]
           /\ \E i \in DOMAIN storage.on_press[b] : storage.on_press[b][i].condition = ConditionAny

\* C3: the verdict of a real event is Block if a hook whose condition is
\* satisfied for the event has the operation Block (a remap that matches counts
\* as one: its contribution is forced to Block), and Dispatch otherwise; it is
\* Dispatch when nothing matches and when no handler is registered.
CondHolds(c, trk) ==
    CASE c.type = "Any" -> TRUE
      [] c.type = "Modifier" -> Holds(c.modifier_keys, trk)
      [] c.type = "Activation" -> is_active[c.is_active]

BlockMatched(e) ==
    IF e.kind = "button"
    THEN \/ RemapMatches(e)
         \/ \E i \in DOMAIN HookList(e) :
                /\ HookList(e)[i].native_event_operation = "Block"
                /\ CondHolds(HookList(e)[i].condition, TrackerAfter(e))
    ELSE \E i \in DOMAIN MouseList(e) :
                /\ MouseList(e)[i].native_event_operation = "Block"
                /\ Holds(MouseList(e)[i].modifier_keys, tracker)

C3_BlockWins ==
    /\ \A e \in RealEvent :
           Handled(e).verdict = IF generator /\ BlockMatched(e) THEN "Block" ELSE "Dispatch"
    /\ last.verdict = "Block" <=>
           \/ last.emitted # <<>>
           \/ \E i \in DOMAIN last.scheduled : last.scheduled[i].native_event_operation = "Block"

\* Scenario S4: one event fired a Dispatch hook and a Block hook and was blocked.
C3_Witness ==
    /\ last.verdict = "Block"
    /\ \E i, j \in DOMAIN last.scheduled :
           /\ last.scheduled[i].native_event_operation = "Dispatch"
           /\ last.scheduled[j].native_event_operation = "Block"

\* C4: when a remap registered for the button of a real event has its condition
\* satisfied, no on_press or on_release hook of that button is fired for the
\* event, whatever the hooks' conditions are.
C4_RemapTotal ==
    \A e \in RealButtonEvent : RemapMatches(e) => Handled(e).scheduled = <<>>

\* A real event was remapped while an unconditional hook was registered for
\* the same button and action, and nothing was scheduled.
C4_Witness ==
    /\ last.event.kind = "button"
    /\ last.emitted # <<>>
    /\ last.scheduled = <<>>
    /\ \E i \in DOMAIN HookList(last.event) : HookList(last.event)[i].condition = ConditionAny

\* C5: once remap(A -> B) is the remap registered for A, a real Press(A) is
\* blocked, makes the injector emit exactly one tagged Press(B), sets the
\* tracker entry of A and fires no callback; a real Release(A) likewise with
\* one tagged Release(B).
Remapped(A, B) ==
    storage.remap[A] = remap(EmptyStorage, RootHotkey, <<direct(A)>>, B).storage.remap[A]

C5_Remap ==
    \A A \in Button, B \in Button, a \in ButtonAction :
        generator /\ Remapped(A, B) =>
            /\ Handled(ButtonEvent(A, a, 0)).verdict = "Block"
            /\ Handled(ButtonEvent(A, a, 0)).emitted = <<ButtonEvent(B, a, DW_EXTRA_INFO)>>
            /\ Handled(ButtonEvent(A, a, 0)).tracker[A] = (a = "Press")
            /\ Handled(ButtonEvent(A, a, 0)).scheduled = <<>>

\* Scenario S1 with A = LCtrl and B = Space: the real Press(A) was handled.
C5_Witness ==
    /\ Remapped("LCtrl", "Space")
    /\ last.event = ButtonEvent("LCtrl", "Press", 0)
    /\ last.verdict = "Block"
    /\ last.emitted = <<ButtonEvent("Space", "Press", DW_EXTRA_INFO)>>
    /\ tracker["LCtrl"]
    /\ BagIn(ButtonEvent("Space", "Press", DW_EXTRA_INFO), sent)

\* The buttons a modifier list requires pressed (written plainly) and released
\* (written with "!").
PressedRequired(M) == {M[i].button : i \in {j \in DOMAIN M : M[j].tag = "Direct"}}

ReleasedRequired(M) == {M[i].button : i \in {j \in DOMAIN M : M[j].tag = "Inversion"}}

\* How many elements of the target list T the real button event e triggers.
Triggers(T, e) ==
    Cardinality({i \in DOMAIN T :
        /\ T[i].button = e.target
        /\ (T[i].tag = "Direct") <=> (e.action = "Press")})

\* The hook h of the list of e is scheduled as often as it is registered when
\* its modifier keys hold just after e, and not at all otherwise.
FiresIffHolds(h, e) ==
    Occurrences(Handled(e).scheduled, h) =
        IF Holds(h.condition.modifier_keys, TrackerAfter(e))
        THEN Occurrences(HookList(e), h) ELSE 0

\* C6 as stated: every hook with a modifier condition fires on its trigger
\* event if and only if, just after the event is ingested, every button of P
\* is pressed and no button of N is.
C6_AsStated ==
    generator =>
        \A e \in RealButtonEvent : \A i \in DOMAIN HookList(e) :
            HookList(e)[i].condition.type = "Modifier" => FiresIffHolds(HookList(e)[i], e)

\* C6, amended: the same, for the events that no remap of the trigger button
\* matches; and with add_modifier_keys(M).on_press(T, cb) as the only
\* registration, cb is invoked once per matching element of T when every
\* plainly written button of M is pressed and every "!" button of M is
\* released just after the event, and zero times otherwise.
C6_ModifierGate ==
    generator =>
        /\ \A e \in RealButtonEvent : \A i \in DOMAIN HookList(e) :
               HookList(e)[i].condition.type = "Modifier" /\ ~RemapMatches(e) =>
                   FiresIffHolds(HookList(e)[i], e)
        /\ \A M \in ButtonArg, T \in ButtonArg :
               storage = on_press(EmptyStorage, add_modifier_keys(RootHotkey, M), T,
                                  UserProcess(1)) =>
                   \A e \in RealButtonEvent :
                       UserCallbacks(Handled(e).scheduled) =
                           IF /\ PressedRequired(M) \subseteq {b \in Button : TrackerAfter(e)[b]}
                              /\ ReleasedRequired(M) \cap {b \in Button : TrackerAfter(e)[b]} = {}
                           THEN Triggers(T, e) ELSE 0

\* Scenario S2 with LShift = LCtrl and Q = Space: Press(Space) while LCtrl is
\* held fired the one hook registered under LCtrl.
C6_Witness ==
    /\ storage = on_press(EmptyStorage, add_modifier_keys(RootHotkey, <<direct("LCtrl")>>),
                          <<direct("Space")>>, UserProcess(1))
    /\ tracker["LCtrl"]
    /\ last.event = ButtonEvent("Space", "Press", 0)
    /\ Len(last.scheduled) = 1
    /\ last.scheduled[1].process = UserProcess(1)

\* The callback of latch l is among the hooks the last event fired.
CallbackFired(l) ==
    \E i \in DOMAIN last.scheduled : IsInactivation(last.scheduled[i], l)

\* C7: once the callback of a modifier-gated on_release has fired, its latch
\* is false, and stays so until an event activates it again.
C7_LatchOneShot ==
    \A l \in DOMAIN is_active : CallbackFired(l) => ~is_active[l]

\* C8: in scenario S3 the callback fires exactly once, on Release(LCtrl), and
\* not on the Release(Space) that follows.
C8_S3 ==
    s3.step = Len(S3Events) => s3.fired = <<0, 0, 1, 0>>

\* C9: after every sequence of real button events the tracker reports as
\* pressed exactly the buttons whose last real event is a Press, whatever was
\* matched and whatever the verdicts were; a Press of a button that is already
\* pressed leaves the tracker as it is.
C9_Tracker ==
    generator =>
        /\ {b \in Button : tracker[b]} = {b \in Button : last_press[b]}
        /\ \A b \in Button :
               tracker[b] => Handled(ButtonEvent(b, "Press", 0)).tracker = tracker

\* A Release was blocked by a hook while another button is held.
C9_Witness ==
    /\ generator
    /\ last.event = ButtonEvent("Space", "Release", 0)
    /\ last.verdict = "Block"
    /\ last.scheduled # <<>>
    /\ tracker["LCtrl"] /\ ~tracker["Space"]

\* C10: a real button event changes the tracker entry of its button and no
\* other, and the rules are evaluated against the tracker that already holds
\* the event: a hook or remap of X that requires X released never fires on
\* Press(X), one that requires X pressed never fires on Release(X), and a hook
\* of X that requires X pressed fires on Press(X) when the rest of its
\* predicate holds and no remap matches (likewise X released on Release(X)).
Excluded(mk, e) ==
    IF e.action = "Press" THEN e.target \in mk.released ELSE e.target \in mk.pressed

Included(mk, e) ==
    IF e.action = "Press" THEN e.target \in mk.pressed ELSE e.target \in mk.released

HoldsElsewhere(mk, e) ==
    /\ \A b \in mk.pressed \ {e.target} : tracker[b]
    /\ \A b \in mk.released \ {e.target} : ~tracker[b]

C10_TrackerFirst ==
    generator =>
        \A e \in RealButtonEvent :
            /\ Handled(e).tracker = TrackerAfter(e)
            /\ (\A i \in DOMAIN storage.remap[e.target] :
                   Excluded(storage.remap[e.target][i].modifier_keys, e))
               => Handled(e).emitted = <<>>
            /\ \A i \in DOMAIN HookList(e) :
                   LET h == HookList(e)[i]
                   IN h.condition.type = "Modifier" =>
                       /\ Excluded(h.condition.modifier_keys, e) =>
                              Occurrences(Handled(e).scheduled, h) = 0
                       /\ /\ Included(h.condition.modifier_keys, e)
                          /\ ~Excluded(h.condition.modifier_keys, e)
                          /\ HoldsElsewhere(h.condition.modifier_keys, e)
                          /\ ~RemapMatches(e)
                          => Occurrences(Handled(e).scheduled, h) > 0

\* Press(LCtrl), with LCtrl up before, fired a hook of LCtrl whose predicate
\* requires LCtrl pressed.
C10_Witness ==
    /\ last.event = ButtonEvent("LCtrl", "Press", 0)
    /\ \E i \in DOMAIN last.scheduled :
           /\ "condition" \in DOMAIN last.scheduled[i]
           /\ last.scheduled[i].condition.type = "Modifier"
           /\ "LCtrl" \in last.scheduled[i].condition.modifier_keys.pressed
    /\ last_press = [b \in Button |-> b = "LCtrl"]

\* The hooks that a disable call left in the two lists of button b.
DisableHooks(b) ==
    {storage.on_press[b][i] : i \in {j \in DOMAIN storage.on_press[b] :
                                         storage.on_press[b][j].process.kind = "empty"}}
    \cup {storage.on_release[b][i] : i \in {j \in DOMAIN storage.on_release[b] :
                                               storage.on_release[b][j].process.kind = "empty"}}

\* Every hook and remap of the store comes from a disable call.
OnlyDisabled ==
    /\ storage.mouse_wheel = <<>> /\ storage.mouse_cursor = <<>>
    /\ \A b \in Button :
           /\ storage.remap[b] = <<>>
           /\ \A i \in DOMAIN storage.on_press[b] : storage.on_press[b][i].process.kind = "empty"
           /\ \A i \in DOMAIN storage.on_release[b] : storage.on_release[b][i].process.kind = "empty"

\* C11: after disable(B) on the root registrar or on a derived one, a real
\* Press(B) and a real Release(B) are both blocked whenever the modifier
\* condition of the registrar holds, and nothing a user could see is done:
\* no input is synthesised and no user callback is scheduled.
C11_Disable ==
    generator =>
        \A B \in Button, a \in ButtonAction : \A h \in DisableHooks(B) :
            CondHolds(h.condition, TrackerAfter(ButtonEvent(B, a, 0))) =>
                /\ Handled(ButtonEvent(B, a, 0)).verdict = "Block"
                /\ OnlyDisabled =>
                       /\ Handled(ButtonEvent(B, a, 0)).emitted = <<>>
                       /\ UserCallbacks(Handled(ButtonEvent(B, a, 0)).scheduled) = 0

\* How many elements of the target list T are button b with the given tag.
Tagged(T, tag, b) == Cardinality({i \in DOMAIN T : T[i].tag = tag /\ T[i].button = b})

\* The list new is the list old with n more hooks after it, every one of which
\* passes Test.
Extends(old, new, n, Test(_)) ==
    /\ Len(new) = Len(old) + n
    /\ \A i \in DOMAIN old : new[i] = old[i]
    /\ \A i \in (Len(old) + 1)..Len(new) : Test(new[i])

\* The hooks after the first n of a list that pass Test.
Later(seq, n, Test(_)) == Cardinality({i \in (n + 1)..Len(seq) : Test(seq[i])})

\* on_press(T, cb) on registrar r adds one hook with cb to the on-press list
\* of b per Direct b in T and one to the on-release list per Inversion b.
PressInstalls(r, T, b) ==
    LET st == on_press(storage, r, T, UserProcess(ncalls + 1))
    IN /\ Extends(storage.on_press[b], st.on_press[b], Tagged(T, "Direct", b),
                  LAMBDA h : h.process = UserProcess(ncalls + 1))
       /\ Extends(storage.on_release[b], st.on_release[b], Tagged(T, "Inversion", b),
                  LAMBDA h : h.process = UserProcess(ncalls + 1))

\* on_release(T, cb) on the root registrar does the opposite.
ReleaseInstalls(T, b) ==
    LET st == Hotkey_on_release(storage, T, UserProcess(ncalls + 1))
    IN /\ Extends(storage.on_release[b], st.on_release[b], Tagged(T, "Direct", b),
                  LAMBDA h : h.process = UserProcess(ncalls + 1))
       /\ Extends(storage.on_press[b], st.on_press[b], Tagged(T, "Inversion", b),
                  LAMBDA h : h.process = UserProcess(ncalls + 1))

\* on_release(T, cb) on a derived registrar r: per Direct b in T the setter on
\* press and the consumer on release, per Inversion b the setter on release
\* and the consumer on press; apart from them only the consumers on the
\* modifier keys of r.
GatedReleaseInstalls(r, T, b) ==
    LET l == ncalls + 1
        st == ModifierHotkey_on_release(storage, r, T, UserProcess(l), l)
        np == Len(storage.on_press[b])
        nr == Len(storage.on_release[b])
    IN /\ Later(st.on_press[b], np, LAMBDA h : IsActivation(h, l)) = Tagged(T, "Direct", b)
       /\ Later(st.on_release[b], nr, LAMBDA h : IsActivation(h, l)) = Tagged(T, "Inversion", b)
       /\ Later(st.on_release[b], nr, LAMBDA h : IsInactivation(h, l) /\ h.process = UserProcess(l))
              = Tagged(T, "Direct", b) + (IF b \in r.modifier_keys.pressed THEN 1 ELSE 0)
       /\ Later(st.on_press[b], np, LAMBDA h : IsInactivation(h, l) /\ h.process = UserProcess(l))
              = Tagged(T, "Inversion", b) + (IF b \in r.modifier_keys.released THEN 1 ELSE 0)
       /\ Extends(storage.on_press[b], st.on_press[b], Len(st.on_press[b]) - np,
                  LAMBDA h : IsActivation(h, l) \/ IsInactivation(h, l))
       /\ Extends(storage.on_release[b], st.on_release[b], Len(st.on_release[b]) - nr,
                  LAMBDA h : IsActivation(h, l) \/ IsInactivation(h, l))

\* C12: for every button argument, on_press puts the hook of a Direct button
\* in the on-press list of that button and the hook of an Inversion button in
\* its on-release list; on_release does the opposite; a modifier-gated
\* on_release with an Inversion target puts the latch setter on release and
\* the latch consumer on press.
C12_Inversion ==
    \A i \in DOMAIN registrars, T \in ButtonArg, b \in Button :
        /\ PressInstalls(registrars[i], T, b)
        /\ IF registrars[i].kind = "Hotkey" THEN ReleaseInstalls(T, b)
           ELSE GatedReleaseInstalls(registrars[i], T, b)

\* A modifier-gated on_release with an Inversion target has been registered:
\* its setter is in the on-release list of the target and its consumer in the
\* on-press list, and a later call can still be made.
C12_Witness ==
    /\ phase = "registration"
    /\ \E b \in Button, l \in DOMAIN is_active :
           /\ \E i \in DOMAIN storage.on_release[b] : IsActivation(storage.on_release[b][i], l)
           /\ \E i \in DOMAIN storage.on_press[b] : IsInactivation(storage.on_press[b][i], l)
           /\ \A i \in DOMAIN storage.on_press[b] : ~IsActivation(storage.on_press[b][i], l)

\* C13: remap aborts whenever at least one of its input buttons is tagged
\* Inversion, on the root registrar and on derived registrars alike, and
\* returns normally when all of them are Direct; after the abort the program
\* does nothing more.
C13_RemapInversion ==
    /\ \A i \in DOMAIN registrars, T \in ButtonArg, B \in Button :
           remap(storage, registrars[i], T, B).panicked
               <=> \E j \in DOMAIN T : T[j].tag = "Inversion"
    /\ phase = "panicked" => ~ENABLED Next

\* A remap call on a derived registrar has aborted.
C13_Witness ==
    /\ phase = "panicked"
    /\ \E i \in DOMAIN registrars : registrars[i].kind = "ModifierHotkey"

\* The registrar d carries the context of o with the modifier list M added.
AddsKeys(o, M, d) ==
    /\ d.modifier_keys.pressed = o.modifier_keys.pressed \cup PressedRequired(M)
    /\ d.modifier_keys.released = o.modifier_keys.released \cup ReleasedRequired(M)
    /\ d.native_event_operation = o.native_event_operation

\* The hooks that on_press(T, cb) on registrar o adds to the lists of b carry
\* the modifier predicate and the operation of o.
HooksCarry(o, T, b) ==
    LET st == on_press(storage, o, T, UserProcess(ncalls + 1))
    IN /\ Extends(storage.on_press[b], st.on_press[b],
                  Len(st.on_press[b]) - Len(storage.on_press[b]),
                  LAMBDA h : /\ h.condition.type \in {"Any", "Modifier"}
                             /\ h.condition.modifier_keys = o.modifier_keys
                             /\ h.native_event_operation = o.native_event_operation)
       /\ Extends(storage.on_release[b], st.on_release[b],
                  Len(st.on_release[b]) - Len(storage.on_release[b]),
                  LAMBDA h : /\ h.condition.type \in {"Any", "Modifier"}
                             /\ h.condition.modifier_keys = o.modifier_keys
                             /\ h.native_event_operation = o.native_event_operation)

\* One step of the registration: the registrars that exist stay as they are,
\* a registrar that is added carries a context derived from one of them, and
\* every registrar registers with its own context.
FrameStep ==
    /\ \A i \in DOMAIN registrars, T \in ButtonArg, b \in Button :
           HooksCarry(registrars[i], T, b)
    /\ \A i \in DOMAIN registrars, M \in ButtonArg, op \in NativeEventOperation :
           /\ AddsKeys(registrars[i], M, add_modifier_keys(registrars[i], M))
           /\ change_native_event_operation(registrars[i], op).modifier_keys
                  = registrars[i].modifier_keys
           /\ change_native_event_operation(registrars[i], op).native_event_operation = op
    /\ phase' = "registration" =>
           /\ Len(registrars') >= Len(registrars)
           /\ \A i \in DOMAIN registrars : registrars'[i] = registrars[i]
           /\ \A i \in DOMAIN registrars' \ DOMAIN registrars :
                  \E j \in DOMAIN registrars :
                      \/ \E M \in ButtonArg : registrars'[i] = add_modifier_keys(registrars[j], M)
                      \/ \E op \in NativeEventOperation :
                             registrars'[i] = change_native_event_operation(registrars[j], op)

\* C14: add_modifier_keys and change_native_event_operation return a new
\* registrar with the updated context and leave the registrar they were
\* called on unchanged: hooks registered through the original afterwards
\* still get the original modifier predicate and the original operation.
C14_Frame == [][FrameStep]_vars

\* The root registrar has been derived from, and a hook was registered through
\* it after a hook of the derived registrar: it is unconditional and has the
\* default operation.
C14_Witness ==
    /\ Len(registrars) = 2
    /\ registrars[1] = RootHotkey
    /\ registrars[2] # RootHotkey
    /\ \E b \in Button :
           /\ Len(storage.on_press[b]) = 2
           /\ storage.on_press[b][1].condition = ConditionModifier(registrars[2].modifier_keys)
           /\ storage.on_press[b][2] = HotkeyNewHook(UserProcess(2))

\* Hook i of the list of e is the first of the list that reads its latch.
FirstOfLatch(e, i) ==
    \A j \in 1..(i - 1) : HookList(e)[j].condition # HookList(e)[i].condition

\* Every hook that matches the real event e is scheduled, as often as it is
\* registered: a hook of the button and action of e whose modifier predicate
\* holds just after e, the first hook that reads a latch that is set, a wheel
\* or cursor hook whose modifier keys hold.
EveryMatchScheduled(e) ==
    IF e.kind = "button"
    THEN ~RemapMatches(e) =>
             \A i \in DOMAIN HookList(e) :
                 IF HookList(e)[i].condition.type = "Activation"
                 THEN is_active[HookList(e)[i].condition.is_active] /\ FirstOfLatch(e, i) =>
                          Occurrences(Handled(e).scheduled, HookList(e)[i]) > 0
                 ELSE CondHolds(HookList(e)[i].condition, TrackerAfter(e)) =>
                          Occurrences(Handled(e).scheduled, HookList(e)[i])
                              = Occurrences(HookList(e), HookList(e)[i])
    ELSE \A i \in DOMAIN MouseList(e) :
             Holds(MouseList(e)[i].modifier_keys, tracker) =>
                 Occurrences(Handled(e).scheduled, MouseList(e)[i])
                     = Occurrences(MouseList(e), MouseList(e)[i])

\* A step that handles an event for which callbacks other than latch setters
\* are scheduled hands them to a new thread.
BatchSpawned ==
    /\ pending'[0] >= pending[0]
    /\ last' # last \/ pending'[0] # pending[0]
    /\ \E i \in DOMAIN last'.scheduled : last'.scheduled[i].process.kind # "activate"
    => pending'[0] = pending[0] + 1

\* C15: when several hooks match one real event, the callback of every one of
\* them is scheduled, whatever the operations of the hooks are, and the
\* scheduled callbacks run.
C15_NoCancel ==
    /\ [](\A e \in RealEvent : EveryMatchScheduled(e))
    /\ [][BatchSpawned]_vars
    /\ (pending[0] > 0) ~> (pending[0] = 0)

\* Scenario S4 at the moment the thread is spawned: Press(LCtrl) has scheduled
\* the callbacks of a Dispatch hook and of a Block hook, and they have not
\* run yet.
C15_Witness ==
    /\ 0 \in DOMAIN pending
    /\ pending[0] = 1
    /\ last.event = ButtonEvent("LCtrl", "Press", 0)
    /\ Len(last.scheduled) = 2
    /\ last.scheduled[1].process = UserProcess(1)
    /\ last.scheduled[1].native_event_operation = "Dispatch"
    /\ last.scheduled[2].process = UserProcess(2)
    /\ last.scheduled[2].native_event_operation = "Block"

\* C16: every callback is invoked at most once per originating event, for
\* every rule store that the registration API can build: no two of the hooks
\* that one real event schedules carry the same callback.
C16_AtMostOnce ==
    generator =>
        \A e \in RealEvent : \A i, j \in DOMAIN Handled(e).scheduled :
            i # j => Handled(e).scheduled[i].process # Handled(e).scheduled[j].process

\* The real events that the target list T names: a press and a release of
\* each of its buttons.
EventsOf(T) == {e \in RealButtonEvent : \E i \in DOMAIN T : T[i].button = e.target}

\* C17: a remap that fires contributes Block to the verdict, whatever the
\* native-event operation of the registrar it was registered through is:
\* registered through a registrar whose operation is Dispatch, it still
\* blocks the original event, in every tracker state in which it fires.
C17_RemapBlocks ==
    /\ generator =>
           \A e \in RealButtonEvent : RemapMatches(e) => Handled(e).verdict = "Block"
    /\ \A i \in DOMAIN registrars, T \in ButtonArg, B \in Button :
           ~remap(storage, registrars[i], T, B).panicked =>
               \A e \in EventsOf(T), trk \in [Button -> BOOLEAN] :
                   ModifierKeysSatisfied(registrars[i].modifier_keys,
                                         TrackerSet(trk, e.target, e.action)) =>
                       hook_proc(TRUE, remap(storage, registrars[i], T, B).storage,
                                 trk, is_active, e).verdict = "Block"

\* Every registrar of the program had the operation Dispatch (the store holds
\* a hook of a registrar derived with change_native_event_operation(Dispatch)),
\* and a real Press was remapped and blocked.
C17_Witness ==
    /\ generator
    /\ last.event.kind = "button"
    /\ last.event.action = "Press"
    /\ last.emitted # <<>>
    /\ last.verdict = "Block"
    /\ \E b \in Button : \E i \in DOMAIN storage.on_press[b] :
           /\ storage.on_press[b][i].condition = ConditionModifier(EmptyModifierKeys)
           /\ storage.on_press[b][i].native_event_operation = "Dispatch"

\* The store without the remaps of button b.
WithoutRemaps(b) == [storage EXCEPT !.remap[b] = <<>>]

\* C18: when remaps are registered for X and none of them has its condition
\* satisfied by a real Press(X) or Release(X), nothing is synthesised, and the
\* hooks of X for that action are scanned and fired, and the verdict is
\* computed, exactly as if no remap were registered for X.
C18_FallThrough ==
    generator =>
        \A e \in RealButtonEvent :
            storage.remap[e.target] # <<>> /\ ~RemapMatches(e) =>
                /\ Handled(e).emitted = <<>>
                /\ Handled(e) = hook_proc(generator, WithoutRemaps(e.target), tracker, is_active, e)

\* A real Press of a button that has a remap whose modifier key was not held
\* went on to the on-press hooks of the button and fired one.
C18_Witness ==
    /\ generator
    /\ last.event.kind = "button"
    /\ last.event.action = "Press"
    /\ storage.remap[last.event.target] # <<>>
    /\ \A i \in DOMAIN storage.remap[last.event.target] :
           ~Holds(storage.remap[last.event.target][i].modifier_keys, tracker)
    /\ last.emitted = <<>>
    /\ last.scheduled # <<>>

\* The setter of latch l was registered by a registrar without modifier keys.
LatchUngated(l) ==
    \E b \in Button :
        \/ \E i \in DOMAIN storage.on_press[b] :
               /\ IsActivation(storage.on_press[b][i], l)
               /\ storage.on_press[b][i].condition = ConditionModifier(EmptyModifierKeys)
        \/ \E i \in DOMAIN storage.on_release[b] :
               /\ IsActivation(storage.on_release[b][i], l)
               /\ storage.on_release[b][i].condition = ConditionModifier(EmptyModifierKeys)

\* The hook h was registered through a registrar that carries no modifier keys.
Ungated(h) ==
    \/ h.condition = ConditionAny
    \/ h.condition = ConditionModifier(EmptyModifierKeys)
    \/ h.condition.type = "Activation" /\ LatchUngated(h.condition.is_active)

AlwaysHolds(c) == c.type # "Activation" /\ \A trk \in [Button -> BOOLEAN] : CondHolds(c, trk)

\* Every hook that the list new has after the hooks of old holds in every
\* tracker state.
AddsAlwaysHolding(old, new) ==
    Extends(old, new, Len(new) - Len(old), LAMBDA h : AlwaysHolds(h.condition))

Due(mk, T, e) ==
    IF e.action = "Release"
    THEN e.target \in mk.pressed \/ \E i \in DOMAIN T : T[i] = direct(e.target)
    ELSE e.target \in mk.released \/ \E i \in DOMAIN T : T[i] = inversion(e.target)

\* Every hook of the lists of button b that sets a latch has the operation
\* Dispatch.
SettersDispatch(b) ==
    /\ \A i \in DOMAIN storage.on_press[b] :
           storage.on_press[b][i].process.kind = "activate" =>
               storage.on_press[b][i].native_event_operation = "Dispatch"
    /\ \A i \in DOMAIN storage.on_release[b] :
           storage.on_release[b][i].process.kind = "activate" =>
               storage.on_release[b][i].native_event_operation = "Dispatch"

\* C20: in a modifier-gated on_release registered with the operation Block
\* the hook that sets the latch always contributes Dispatch, so the
\* activating Press is not blocked by the registration; a hook that reads the
\* latch fires, and contributes, only while the latch is true; with the
\* registration alone in the store, a real event is blocked exactly when the
\* latch is true and the event is one on which the latched callback is due.
C20_LatchBlock ==
    /\ \A b \in Button : SettersDispatch(b)
    /\ generator =>
           \A e \in RealButtonEvent :
               /\ \A i \in DOMAIN Handled(e).scheduled :
                      Handled(e).scheduled[i].condition.type = "Activation" =>
                          is_active[Handled(e).scheduled[i].condition.is_active]
               /\ \A i \in DOMAIN Handled(e).scheduled :
                      Handled(e).scheduled[i].process.kind = "activate" =>
                          Handled(e).scheduled[i].native_event_operation = "Dispatch"
    /\ generator =>
           \A mk \in GatedKeys, T \in ButtonArg :
               storage = GatedBlockStore(mk, T) =>
                   \A e \in RealButtonEvent :
                       /\ Handled(e).verdict = "Block" <=> is_active[1] /\ Due(mk, T, e)
                       /\ Handled(e).verdict = "Block" <=>
                              \E i \in DOMAIN Handled(e).scheduled :
                                  Handled(e).scheduled[i].process = UserProcess(1)

\* add_modifier_keys(LCtrl).block.on_release(Space, cb) is the only
\* registration; the latch was set and the real Release(Space) has fired cb
\* and was blocked.
C20_Witness ==
    /\ generator
    /\ storage = GatedBlockStore(ModifierKeysFrom(<<direct("LCtrl")>>), <<direct("Space")>>)
    /\ last.event = ButtonEvent("Space", "Release", 0)
    /\ last.verdict = "Block"
    /\ \E i \in DOMAIN last.scheduled : last.scheduled[i].process = UserProcess(1)

\* C21: the latches are written and read by the resolver only: the latch is
\* set to true as part of the synchronous processing of the activating event,
\* so that no setter is left to a callback task and a Release that follows
\* the activating Press at once finds the latch true.
C21_SyncLatch ==
    generator =>
        /\ \A l \in DOMAIN is_active : pending[l] = 0
        /\ \A e \in RealButtonEvent, l \in DOMAIN is_active :
               (\E i \in DOMAIN Handled(e).scheduled : IsActivation(Handled(e).scheduled[i], l))
                   => Handled(e).is_active[l]

\* The latches of a resolver that has handled no event.
FreshLatches == [l \in DOMAIN is_active |-> FALSE]

\* The verdict of a fresh resolver, primed with the tracker only, for e.
FreshVerdict(e) == hook_proc(generator, storage, tracker, FreshLatches, e).verdict

\* No hook of the store that reads a latch has the operation Block.
NoBlockingLatch ==
    \A b \in Button :
        /\ \A i \in DOMAIN storage.on_press[b] :
               storage.on_press[b][i].condition.type = "Activation" =>
                   storage.on_press[b][i].native_event_operation = "Dispatch"
        /\ \A i \in DOMAIN storage.on_release[b] :
               storage.on_release[b][i].condition.type = "Activation" =>
                   storage.on_release[b][i].native_event_operation = "Dispatch"

\* The tracker with the entry of the button of e the other way round: another
\* tracker before e that gives the same tracker just after e.
OtherBefore(e) ==
    IF e.kind = "button" THEN [tracker EXCEPT ![e.target] = ~tracker[e.target]] ELSE tracker

\* C22 as stated: the verdict of every real event is the verdict that a fresh
\* resolver, primed only with the tracker reached just before the event,
\* gives for it, for every rule store.
C22_AsStated ==
    generator => \A e \in RealEvent : Handled(e).verdict = FreshVerdict(e)

\* C22, amended: the verdict of a real event is determined by the event, the
\* tracker just after the event is ingested, the rule store and the latches:
\* it does not depend on the entry the tracker had for the button before the
\* event, and for a rule store in which no hook that reads a latch has the
\* operation Block it is the verdict of a fresh resolver primed with the
\* tracker only.
C22_Pure ==
    generator =>
        \A e \in RealEvent :
            /\ Handled(e).verdict
                   = hook_proc(generator, storage, OtherBefore(e), is_active, e).verdict
            /\ NoBlockingLatch => Handled(e).verdict = FreshVerdict(e)

\* A resolver whose latch was set handled a real event: the latched callback
\* fired, with the operation Dispatch, and the event was dispatched as a
\* fresh resolver would have dispatched it.
C22_Witness ==
    /\ generator
    /\ NoBlockingLatch
    /\ last.event.kind = "button"
    /\ last.verdict = "Dispatch"
    /\ \E i \in DOMAIN last.scheduled : last.scheduled[i].condition.type = "Activation"

\* The steps of the calls of hook_proc, without what the callback threads and
\* the callers of the injector logged.
CallSteps == {"call", "input", "update", "scan", "verdict"}

StepOf(i) == IF log[i].step = "input" THEN "call" ELSE log[i].step

StepRank(step) ==
    CASE step = "call" -> 1 [] step = "update" -> 2 [] step = "scan" -> 3 [] step = "verdict" -> 4

\* C23: the calls of the bridge do not overlap, whatever the callback threads
\* do in between: of two steps in the log of the hook thread, the later one
\* belongs to the same event or to a later one, so the tracker update and the
\* rule scan of an event are over before those of the next event begin and
\* the verdicts are returned in the order of the events; within one event
\* the call comes before the tracker update, that before the rule scan and
\* that before the verdict.
C23_Serial ==
    \A i \in DOMAIN log, j \in DOMAIN log :
        (i < j /\ log[i].step \in CallSteps /\ log[j].step \in CallSteps)
            => \/ log[i].n < log[j].n
               \/ log[i].n = log[j].n /\ StepRank(StepOf(i)) < StepRank(StepOf(j))

\* Two real events went through the bridge with a callback thread running in
\* between: the setter that the press spawned ran before the rule scan of the
\* release, whose callback is spawned and has not run.
C23_Witness ==
    /\ Cardinality(Logged("verdict")) = 2
    /\ Cardinality(Logged("scan")) = 2
    /\ \A i \in Logged("verdict") : log[i].event \in RealButtonEvent
    /\ DOMAIN is_active # {}
    /\ pending[0] > 0

\* The verdict of call n has been returned.
VerdictOf(n) == \E i \in Logged("verdict") : log[i].n = n

\* C24: every real event that reaches the bridge receives its verdict, also
\* in the behaviours where the callback threads that were spawned before it
\* or for it never run to their end: from a call of hook_proc with a real
\* event in progress, the return of its verdict follows, with no fairness
\* assumed of any callback thread.
C24_NoWait ==
    \A n \in 1..MaxEvents :
        (n \in DOMAIN calls /\ calls[n].event.extra = 0) ~> VerdictOf(n)

\* The verdict of a real event is returned while the thread of the callbacks
\* it spawned has not run.
C24_Witness ==
    /\ Cardinality(Logged("verdict")) = 1
    /\ \A i \in Logged("verdict") : log[i].event.extra = 0 /\ last.scheduled # <<>>
    /\ Logged("panic") = {}
    /\ calls = <<>>
    /\ pending[0] = 1

\* A step in which a callback panicked.
PanicStep == Len(log') = Len(log) + 1 /\ log'[Len(log')].step = "panic"

RealMouseEvent == {e \in RealEvent : e.kind \in {"wheel", "cursor"}}

\* The hooks of the list of e whose modifier keys hold on the tracker.
MouseDue(e) ==
    {i \in DOMAIN MouseList(e) : Holds(MouseList(e)[i].modifier_keys, tracker)}

\* The store after mouse_wheel(cb), respectively mouse_cursor(cb), through registrar r.
WheelThrough(r) ==
    register_mouse_wheel_hotkey(storage, NewMouseHook(registrars[r], UserProcess(ncalls + 1)))

CursorThrough(r) ==
    register_mouse_cursor_hotkey(storage, NewMouseHook(registrars[r], UserProcess(ncalls + 1)))

\* The mouse hook h carries the modifier keys and the operation of registrar r.
OfRegistrar(h, r) ==
    /\ h.modifier_keys = registrars[r].modifier_keys
    /\ h.native_event_operation =
           IF registrars[r].kind = "Hotkey" THEN DefaultNativeEventOperation
           ELSE registrars[r].native_event_operation

\* C26: a wheel or cursor event leaves the tracker and the latches as they
\* are and emits nothing (no remap); it schedules exactly the hooks of the
\* wheel list (respectively the cursor list) whose modifier keys hold on the
\* tracker, and is blocked exactly when one of them asks for Block.  The
\* hook that mouse_wheel or mouse_cursor adds through a registrar goes to the
\* end of its own list and carries the modifier keys and the operation of
\* that registrar.
C26_Mouse ==
    /\ \A r \in DOMAIN registrars :
           /\ Len(WheelThrough(r).mouse_wheel) = Len(storage.mouse_wheel) + 1
           /\ OfRegistrar(WheelThrough(r).mouse_wheel[Len(storage.mouse_wheel) + 1], r)
           /\ WheelThrough(r).mouse_cursor = storage.mouse_cursor
           /\ Len(CursorThrough(r).mouse_cursor) = Len(storage.mouse_cursor) + 1
           /\ OfRegistrar(CursorThrough(r).mouse_cursor[Len(storage.mouse_cursor) + 1], r)
           /\ CursorThrough(r).mouse_wheel = storage.mouse_wheel
    /\ generator =>
           \A e \in RealMouseEvent :
               /\ Handled(e).tracker = tracker
               /\ Handled(e).is_active = is_active
               /\ Handled(e).emitted = <<>>
               /\ Len(Handled(e).scheduled) = Cardinality(MouseDue(e))
               /\ \A i \in MouseDue(e) :
                      \E j \in DOMAIN Handled(e).scheduled :
                          Handled(e).scheduled[j] = MouseList(e)[i]
               /\ Handled(e).verdict = "Block" <=>
                      \E i \in MouseDue(e) : MouseList(e)[i].native_event_operation = "Block"

\* A wheel event, with a button held, fired the wheel hooks it had to, each
\* gated by a modifier that must be pressed.
C26_Witness ==
    /\ generator
    /\ last.event.kind = "wheel"
    /\ last.scheduled # <<>>
    /\ \A i \in DOMAIN last.scheduled : last.scheduled[i].modifier_keys.pressed # {}
    /\ \E b \in Button : tracker[b]

\* C27: the rule store changes in the registration phase only.  The step
\* that leaves the registration phase leaves the store as it is and no
\* registrar behind; after it no step changes the store, brings a registrar
\* back or returns to the registration phase, so every event of the running
\* phase is resolved against the store that was there at install.
C27_Frozen ==
    [][/\ (phase = "registration" /\ phase' # "registration" /\ phase' # "panicked")
            => storage' = storage /\ registrars' = <<>>
       /\ phase # "registration"
            => storage' = storage /\ registrars' = registrars /\ phase' # "registration"]_vars

\* The engine runs on a store with hooks, all registrars gone, and has
\* resolved an event that fired hooks of that store.
C27_Witness ==
    /\ phase = "running"
    /\ registrars = <<>>
    /\ ncalls = MaxCalls
    /\ last.event.kind = "button"
    /\ Len(last.scheduled) = 2

\* The event loop has been entered.
LoopEntered == phase \in {"running", "unhooked"}

\* The OS hook is installed.
HookInstalled == phase = "running"

\* C28: when the installation of the OS hook fails, the engine does not
\* start: the event loop is entered only with the hook installed.
C28_FailureReported == LoopEntered => HookInstalled

\* C29: the two inputs of a click reach the input stream in the order they
\* were issued: a tagged Release that the injector delivers comes after the
\* tagged Press of the same button and the same click.
C29_ClickOrder ==
    \A j \in Logged("input") :
        log[j].event.action = "Release"
            => \E i \in Logged("input") :
                   i < j /\ log[i].event = send_key_input(log[j].event.target, "Press")

\* The store of the program  modifier Shift { on_press Space => cb }.
UnderShift ==
    on_press(EmptyStorage,
             add_modifier_keys(RootHotkey, arg([name |-> "Shift", negated |-> FALSE])),
             <<direct("Space")>>, UserProcess(1))

Returned(e, next_result) ==
    hook_proc_return(generator, storage, tracker, is_active, e, next_result)

\* C31: the bridge maps the verdict of a real keyboard event onto its
\* delivery: with the verdict Block the next hook is not called and the
\* value returned is not zero; with the verdict Dispatch the next hook is
\* called and its result is returned; every event gets one of the two.
C31_Delivery ==
    \A e \in RealButtonEvent, next_result \in NextHookResult :
        \E verdict \in {Handled(e).verdict}, ret \in {Returned(e, next_result)} :
            /\ verdict \in {"Block", "Dispatch"}
            /\ verdict = "Block" => ~ret.next_hook /\ ret.lresult # 0
            /\ verdict = "Dispatch" => ret.next_hook /\ ret.lresult = next_result

\* The bridge has blocked a real event, and in the same state another real
\* event would be passed on.
C31_Witness ==
    /\ last.event \in RealButtonEvent
    /\ last.verdict = "Block"
    /\ \E e \in RealButtonEvent : Handled(e).verdict = "Dispatch"
    /\ \E e \in RealButtonEvent : ~Returned(e, 0).next_hook

\* The modifiers that are pressed when send! starts.
PressedBefore == {b \in Modifiers : tracker[b]}

\* The inputs handed to the injector so far, in the order they were issued.
Issued == [i \in DOMAIN log |-> log[i].event]

\* The buttons held after the inputs have taken effect in the order given.
RECURSIVE KeysAfter(_, _)
KeysAfter(held, inputs) ==
    IF inputs = <<>> THEN held
    ELSE KeysAfter(IF Head(inputs).action = "Press" THEN held \cup {Head(inputs).target}
                   ELSE held \ {Head(inputs).target},
                   Tail(inputs))

\* What the written inputs ask for: the with(..) buttons down in the written
\* order, the inputs in the written order, the with(..) buttons up in the
\* same order; a bare name is a press followed by a release.
RECURSIVE Asked(_)
Asked(inputs) ==
    IF inputs = <<>> THEN <<>>
    ELSE (IF Head(inputs).action \in {"click", "down"}
          THEN <<ButtonEvent(Head(inputs).button, "Press", DW_EXTRA_INFO)>> ELSE <<>>)
         \o (IF Head(inputs).action \in {"click", "up"}
             THEN <<ButtonEvent(Head(inputs).button, "Release", DW_EXTRA_INFO)>> ELSE <<>>)
         \o Asked(Tail(inputs))

Held(buttons, action) == [i \in DOMAIN buttons |-> [button |-> buttons[i], action |-> action]]

\* send! has run to its end and its inputs are: a release of exactly the
\* modifiers pressed at the start, the inputs asked for, a press of the
\* modifiers released, in the order of their release.
SentAsWritten ==
    LET k == Cardinality(PressedBefore)
        n == Len(Issued)
        args == threads[1].args
    IN /\ n >= 2 * k
       /\ {Issued[i].target : i \in 1..k} = PressedBefore
       /\ \A i \in 1..k :
              /\ Issued[i].action = "Release"
              /\ Issued[n - k + i] = ButtonEvent(Issued[i].target, "Press", DW_EXTRA_INFO)
       /\ SubSeq(Issued, k + 1, n - k)
              = Asked(Held(args.with, "down")) \o Asked(args.rest) \o Asked(Held(args.with, "up"))

\* The modifiers that the written inputs themselves leave pressed.
LeftPressed ==
    LET k == Cardinality(PressedBefore)
    IN KeysAfter({}, SubSeq(Issued, k + 1, Len(Issued) - k)) \cap Modifiers

\* C32 as stated: send! releases exactly the modifiers pressed at its start,
\* emits the inputs as written and presses the modifiers it released, so the
\* set of pressed modifiers after send! is the set before.
C32_AsStated ==
    threads[1].pc = "done" =>
        /\ SentAsWritten
        /\ KeysAfter(PressedBefore, Issued) \cap Modifiers = PressedBefore

\* C32, amended: send! releases exactly the modifiers pressed at its start,
\* emits the inputs as written and presses the modifiers it released; the
\* set of pressed modifiers after send! is the set before together with the
\* modifiers that the written inputs themselves leave pressed.
C32_Send ==
    threads[1].pc = "done" =>
        /\ SentAsWritten
        /\ KeysAfter(PressedBefore, Issued) \cap Modifiers = PressedBefore \cup LeftPressed

\* send! has run with two modifiers held at its start, a with(..) and inputs
\* that leave a modifier pressed that was not pressed before.
C32_Witness ==
    /\ threads[1].pc = "done"
    /\ Cardinality(PressedBefore) = 2
    /\ threads[1].args.with # <<>>
    /\ LeftPressed \ PressedBefore # {}

\* The number of elements that a written argument stands for.
Width(item) == IF item.kind = "name" THEN 1 ELSE Len(item.value)

\* The number of elements written before the k-th argument.
RECURSIVE Before(_, _)
Before(items, k) == IF k = 1 THEN 0 ELSE Before(items, k - 1) + Width(items[k - 1])

Flipped(tag) == IF tag = "Direct" THEN "Inversion" ELSE "Direct"

\* C33: the ButtonArg built from a written list has the elements of the
\* arguments in the written order: a button name is one Direct element, with
\* "!" one Inversion element; a bracketed ButtonArg is spliced in where it
\* stands, its elements in their order with their tags, with "!" in front
\* each tag flipped; flipping an element twice gives the element back.
C33_Builder ==
    threads[1].pc = "done" =>
        LET items == threads[1].written
            built == threads[1].value
        IN /\ Len(built) = Before(items, Len(items)) + Width(items[Len(items)])
           /\ \A k \in DOMAIN items :
                  IF items[k].kind = "name"
                  THEN /\ built[Before(items, k) + 1].button = items[k].value
                       /\ built[Before(items, k) + 1].tag =
                              IF items[k].negated THEN "Inversion" ELSE "Direct"
                  ELSE \A i \in DOMAIN items[k].value :
                           /\ built[Before(items, k) + i].button = items[k].value[i].button
                           /\ built[Before(items, k) + i].tag =
                                  IF items[k].negated THEN Flipped(items[k].value[i].tag)
                                  ELSE items[k].value[i].tag
           /\ \A i \in DOMAIN built : invert(invert(built[i])) = built[i]
           /\ arg_list(<<[kind |-> "expr", value |-> arg_list(<<[kind |-> "expr", value |-> built,
                                                                negated |-> TRUE]>>),
                          negated |-> TRUE]>>) = built

\* The macro has built a ButtonArg from a negated bracketed expression of two
\* elements with different tags, followed by a button name.
C33_Witness ==
    /\ threads[1].pc = "done"
    /\ Len(threads[1].written) = 2
    /\ threads[1].written[1].kind = "expr"
    /\ threads[1].written[1].negated
    /\ Len(threads[1].written[1].value) = 2
    /\ threads[1].written[1].value[1].tag # threads[1].written[1].value[2].tag
    /\ threads[1].written[2].kind = "name"
    /\ Len(threads[1].value) = 3

\* The tracker as it was after the first k entries of the log.
RECURSIVE TrackerAt(_)
TrackerAt(k) ==
    IF k = 0 THEN [b \in Button |-> FALSE]
    ELSE IF log[k].step = "update" /\ log[k].event.kind = "button"
         THEN TrackerSet(TrackerAt(k - 1), log[k].event.target, log[k].event.action)
         ELSE TrackerAt(k - 1)

\* The button B was pressed, before the entry v of the log, while mk held.
PressedUnder(mk, B, v) ==
    \E j \in Logged("update") :
        /\ j < v
        /\ log[j].event = ButtonEvent(B, "Press", 0)
        /\ ModifierKeysSatisfied(mk, TrackerAt(j))

\* C34: with add_modifier_keys(M).on_release([A, B], cb), the callback fires
\* on Release(B) only if B itself was pressed while M was satisfied; a press
\* of A under M does not arm the release of B.
C34_OwnPress ==
    \A mk \in GatedKeys, T \in PairTargets, v \in Logged("verdict") :
        /\ storage = GatedBlockStore(mk, T)
        /\ \A w \in Logged("verdict") : w <= v
        /\ \E i \in DOMAIN T : log[v].event = ButtonEvent(T[i].button, "Release", 0)
        /\ log[v].event.target \notin mk.pressed \cup mk.released
        /\ \E i \in DOMAIN last.scheduled : last.scheduled[i].process = UserProcess(1)
        => PressedUnder(mk, log[v].event.target, v)

\* The buttons that the list Y names with the given tag.
Named(Y, tag) == {Y[i].button : i \in {j \in DOMAIN Y : Y[j].tag = tag}}

\* The hooks that the step appended to the lists of the store.
NewHooks ==
    UNION {{storage'.on_press[b][i] :
                i \in (Len(storage.on_press[b]) + 1)..Len(storage'.on_press[b])}
           \cup {storage'.on_release[b][i] :
                i \in (Len(storage.on_release[b]) + 1)..Len(storage'.on_release[b])} :
           b \in Button}

\* The registrar that the step derived.
Derived == registrars'[Len(registrars')]

\* C35: nesting accumulates.  add_modifier_keys(Y) on a registrar that carries
\* the modifier keys X gives a registrar that requires X and Y (the pressed
\* sets merged, the released sets merged) and has the operation of its
\* parent; change_native_event_operation keeps the modifier keys; a hook
\* registered through a registrar has that registrar's keys as condition and
\* that registrar's operation, so that both block { modifier X { .. } } and
\* modifier X { block { .. } } give hooks with condition X and operation Block.
C35_Nesting ==
    [][/\ \A r \in DOMAIN registrars, Y \in ButtonArg :
              AddModifierKeys(r, Y) /\ registrars[r].kind = "ModifierHotkey" =>
                  /\ Derived.modifier_keys.pressed =
                         registrars[r].modifier_keys.pressed \cup Named(Y, "Direct")
                  /\ Derived.modifier_keys.released =
                         registrars[r].modifier_keys.released \cup Named(Y, "Inversion")
                  /\ Derived.native_event_operation = registrars[r].native_event_operation
       /\ \A r \in DOMAIN registrars, op \in NativeEventOperation :
              ChangeNativeEventOperation(r, op) =>
                  /\ Derived.modifier_keys = registrars[r].modifier_keys
                  /\ Derived.native_event_operation = op
       /\ \A r \in DOMAIN registrars, T \in ButtonArg :
              OnPress(r, T) /\ registrars[r].kind = "ModifierHotkey" =>
                  /\ NewHooks # {}
                  /\ \A h \in NewHooks :
                         /\ h.condition.type = "Modifier"
                         /\ h.condition.modifier_keys = registrars[r].modifier_keys
                         /\ h.native_event_operation = registrars[r].native_event_operation
      ]_vars

\* A hook is in the store that was registered inside modifier X { block { .. } }
\* or inside block { modifier X { .. } }: the registrar it came through was
\* derived from a registrar that the root handed out, it carries modifier
\* keys and blocks.
C35_Witness ==
    /\ Len(registrars) = 2
    /\ registrars[1] # registrars[2]
    /\ registrars[2].modifier_keys.pressed # {}
    /\ registrars[2].native_event_operation = "Block"
    /\ \E b \in Button : \E i \in DOMAIN storage.on_press[b] :
           /\ storage.on_press[b][i].condition = ConditionModifier(registrars[2].modifier_keys)
           /\ storage.on_press[b][i].native_event_operation = "Block"

\* The places of the log where the utility issued the given input.
Issues(b, action) ==
    {i \in Logged("emit") : log[i].event.target = b /\ log[i].event.action = action}

\* The alt button has been released and is up, and every spawned callback has
\* finished.
AltTabAtRest ==
    /\ \E i \in Logged("call") : log[i].event = ButtonEvent("LCtrl", "Release", 0)
    /\ ~tracker["LCtrl"]
    /\ threads = <<>>

\* C36: with bind_alt_tab(alt, tab), once the alt button has been released and
\* all spawned callbacks have finished, every LAlt-down that the utility
\* issued is followed by an LAlt-up: LAlt is not left held, under every
\* interleaving of the callback of the tab press and that of the alt release.
C36_AltReleased ==
    AltTabAtRest =>
        \A i \in Issues("LAlt", "Press") : \E j \in Issues("LAlt", "Release") : i < j

\* The places of the log where a run of the alt-release callback ends.
RunEnds == Issues("LAlt", "Release")

\* The alt button was down when the k-th entry of the log was written.
AltHeldAt(k) ==
    \E i \in Logged("call") :
        /\ i < k
        /\ log[i].event = ButtonEvent("LCtrl", "Press", 0)
        /\ \A j \in Logged("call") : i < j /\ j < k => log[j].event.target # "LCtrl"

\* The presses of the tab button while the alt button is held.
TabPresses ==
    {k \in Logged("call") : log[k].event = ButtonEvent("Space", "Press", 0) /\ AltHeldAt(k)}

\* C37: with bind_alt_tab(alt, tab), between two consecutive runs of the
\* alt-release callback (after the end of one, before the start of the next)
\* the utility issues LAlt-down at most once, however often tab is pressed
\* while alt is held and however the callbacks interleave; and each tab press
\* issues one Tab click.
C37_OneDown ==
    /\ \A i \in RunEnds, j \in Logged("run") :
           /\ i < j
           /\ \A k \in RunEnds \cup Logged("run") : ~(i < k /\ k < j)
           => Cardinality({d \in Issues("LAlt", "Press") : i < d /\ d < j}) <= 1
    /\ threads = <<>> =>
           /\ Cardinality(Issues("Tab", "Press")) = Cardinality(TabPresses)
           /\ Cardinality(Issues("Tab", "Release")) = Cardinality(TabPresses)

\* C38: a remap call that fails because one of its input buttons is tagged
\* Inversion leaves the rule store as it was before the call, wherever the
\* Direct buttons of the call stand in the argument list.  The first call of
\* a program finds the store empty: when it has failed, the store is empty.
C38_Rollback ==
    phase = "panicked" /\ ncalls = 1 => storage = EmptyStorage

\* The generator that the last register_handler before the entry i of the log
\* registered, as an Option.
RegisteredBefore(i) ==
    LET before == {j \in Logged("register") : j < i}
    IN IF before = {} THEN <<>>
       ELSE <<log[CHOOSE j \in before : \A k \in before : k <= j].n>>

\* The entries of the log between the start i of an emit and its return.
EmitBody(i) ==
    LET ret == CHOOSE k \in DOMAIN log :
                   /\ k > i
                   /\ log[k].step \in {"Block", "Unblock"}
                   /\ \A m \in (i + 1)..(k - 1) : log[m].step \notin {"Block", "Unblock"}
    IN [calls |-> {m \in (i + 1)..(ret - 1) : log[m].step = "generate"},
        spawns |-> {m \in (i + 1)..(ret - 1) : log[m].step = "spawn"},
        returned |-> log[ret].step]

\* C39: an EventHandler holds at most one generator: is_handler_registered is
\* false at first and true after any register_handler; a later
\* register_handler replaces the earlier generator, so that emit calls the
\* generator registered last, and no other, once, returns the block value of
\* its callback and spawns one thread; emit without a generator calls
\* nothing, spawns nothing and returns Unblock.
C39_Handler ==
    /\ Len(generator) <= 1
    /\ is_handler_registered(generator) <=> Logged("register") # {}
    /\ generator = RegisteredBefore(Len(log) + 1)
    /\ \A i \in Logged("emit") :
           LET body == EmitBody(i)
               option == RegisteredBefore(i)
           IN IF option = <<>>
              THEN body = [calls |-> {}, spawns |-> {}, returned |-> "Unblock"]
              ELSE /\ Cardinality(body.calls) = 1
                   /\ \A m \in body.calls : log[m].n = option[1]
                   /\ Cardinality(body.spawns) = 1
                   /\ \A m \in body.spawns : log[m].n = option[1]
                   /\ body.returned = get_event_block(option[1])
    /\ Cardinality(DOMAIN threads) + Cardinality(Logged("callback"))
           = Cardinality(Logged("spawn"))

\* Two generators with different block values were registered one after the
\* other, then emit was called, and its callback has run.
C39_Witness ==
    /\ Len(log) >= 7
    /\ log[1].step = "register"
    /\ log[2].step = "register"
    /\ get_event_block(log[1].n) # get_event_block(log[2].n)
    /\ log[3].step = "emit"
    /\ Logged("callback") # {}

\* Bit k of the number x is set.
Bit(x, k) == (x \div (2 ^ k)) % 2 = 1

\* The numbers x and y have a set bit in common.
SharesBit(x, y) == \E k \in 0..MaxExtra : Bit(x, k) /\ Bit(y, k)

\* C40: the bridge takes a keyboard event for injected if and only if its
\* extra-info and the origin tag have a set bit in common.  An event whose
\* extra-info is zero or has no bit of the tag is resolved as a real event:
\* the tracker takes it and the rules are scanned.  An event whose extra-info
\* has a bit of the tag is passed on untouched, with the verdict Dispatch,
\* whoever emitted it.
C40_TagTest ==
    generator =>
        \A e \in WideEvent : \E r \in {Handled(e)} :
            /\ IsInjected(e.extra) <=> SharesBit(e.extra, DW_EXTRA_INFO)
            /\ IF SharesBit(e.extra, DW_EXTRA_INFO)
               THEN /\ r.tracker = tracker
                    /\ r.is_active = is_active
                    /\ r.scheduled = <<>>
                    /\ r.emitted = <<>>
                    /\ r.verdict = "Dispatch"
               ELSE /\ r = Resolve(storage, tracker, is_active, e)
                    /\ r.tracker = TrackerAfter(e)

\* An event whose extra-info is neither zero nor the tag, and has no bit of
\* the tag, was handled as a real event: it matched a hook.
C40_Witness ==
    /\ last.event.kind = "button"
    /\ last.event.extra = 2
    /\ last.scheduled # <<>>
    /\ tracker[last.event.target] = (last.event.action = "Press")

====
